---- MODULE Spec2Model ----
(***************************************************************************)
(* Session/turn buffering of the chat backend.                             *)
(*                                                                         *)
(* TurnBasedSessionManager buffers the messages the agent framework hands  *)
(* to append_message and writes them to the turn-store (AgentCore Memory)  *)
(* as merged records.  The turn-store is the sequence `store`; its         *)
(* create_message and list_messages calls, and the persistence of the      *)
(* uuid mapping, may fail, which the actions draw as inputs.               *)
(***************************************************************************)
EXTENDS Integers, Sequences, FiniteSets, TLC

(***************************************************************************)
(* Bounds of the model.                                                    *)
(***************************************************************************)
\* messages offered to the buffer in one behaviour of Spec
MaxMsgs == 3
\* failing collaborator calls in one behaviour of Spec and SpecDirect
MaxFaults == 1
\* messages offered to the buffer in one behaviour of SpecDirect
MaxDirectMsgs == 2
\* messages offered to the buffer in one behaviour of SpecTurn
MaxTurnMsgs == 4
\* messages offered to the buffer in one behaviour of SpecBound
MaxBoundMsgs == 22
\* a small configured batch_size, so that the periodic flush is reached
SmallBatchSize == 2
\* a configured batch_size above the documented max_buffer_size
LargeBatchSize == 25
\* messages the agent appends during one run of stream_response
MaxStreamMsgs == 2
\* events the agent stream yields during one run of stream_response
MaxEvents == 2
\* assignments one query of the quota-store returns
MaxAssignments == 2
\* a configured cache_ttl_seconds, in ticks of the clock
SmallTtl == 2
\* the clock stops here
MaxNow == 5

(***************************************************************************)
(* Configuration values.                                                   *)
(***************************************************************************)
\* batch_size: int = 5
DefaultBatchSize == 5
\* the documented hard cap of the pending buffer; the source has no such
\* option
max_buffer_size == 20

BatchSizes == {SmallBatchSize, DefaultBatchSize}

(***************************************************************************)
(* Messages.  A message is [role, content, message_id]; message_id NoId    *)
(* stands for an absent (falsy) id.  Every content block carries the       *)
(* number of the message it arrived in and its position there, so that     *)
(* blocks are told apart in the store.  The content of a message is a list *)
(* of blocks, as the agent framework builds it, and a message dict is      *)
(* never empty.                                                            *)
(***************************************************************************)
NoId == 0
\* Optional[int]: None is <<>>, the integer n is <<n>>
None == << >>
Some(n) == << n >>

Shapes == {"U", "AT", "TR", "A"}

Block(kind, n, i) == [kind |-> kind, msg |-> n, idx |-> i]

\* U: user text; AT: assistant text with a toolUse; TR: the tool result, a
\* user-role message; A: assistant text without toolUse
RoleOf(shape) == IF shape \in {"U", "TR"} THEN "user" ELSE "assistant"

ContentOf(shape, n) ==
    CASE shape = "U"  -> << Block("text", n, 1) >>
      [] shape = "AT" -> << Block("text", n, 1), Block("toolUse", n, 2) >>
      [] shape = "TR" -> << Block("toolResult", n, 1) >>
      [] shape = "A"  -> << Block("text", n, 1) >>

Message(shape, n, mid) ==
    [role |-> RoleOf(shape), content |-> ContentOf(shape, n), message_id |-> mid]

(***************************************************************************)
(* Outcome of the collaborator calls of one flush: all succeed, or the     *)
(* first that fails is create_message, list_messages, the read of the      *)
(* mapping file, or another step of storing the mapping.                   *)
(***************************************************************************)
Outcomes == {"ok", "write_fails", "list_fails", "map_read_fails", "map_fails"}

VARIABLES
    pending_messages,    \* self.pending_messages
    last_message_role,   \* self.last_message_role ("none" for None)
    batch_size,          \* self.batch_size
    cancelled,           \* self.cancelled
    store,               \* the records of the session in the turn-store
    uuid_mappings,       \* uuid_mappings.json: sequential id -> uuid
    conversations_table, \* whether CONVERSATIONS_TABLE_NAME is set
    creates,             \* number of create_message calls made
    lists,               \* number of list_messages calls made
    faults,              \* number of failed collaborator calls
    fed,                 \* shapes of the messages offered so far
    atCancel,            \* the buffer as it was when cancelled was set
    lastCall             \* the call just made and what it did

\* one run of StreamCoordinator.stream_response
VARIABLES
    pc,                  \* where the run of stream_response is
    exposes_flush,       \* hasattr(session_manager, 'flush')
    metadata_seen,       \* the local metadata_seen
    trace                \* events yielded and flush calls made, in order

\* QuotaResolver and the quota-store it reads
VARIABLES
    quota_store,               \* what the repository holds
    cache_ttl,                 \* self.cache_ttl
    cache,                     \* self._cache: cache key -> (resolved, cached_at)
    domain_assignments_cache,  \* self._domain_assignments_cache
    now,                       \* datetime.utcnow()
    lastResolve                \* the resolve_user_quota call just made

sessionVars == << pending_messages, last_message_role, batch_size, cancelled,
                  store, uuid_mappings, conversations_table, creates, lists,
                  faults, fed, atCancel, lastCall >>

streamVars == << pc, exposes_flush, metadata_seen, trace >>

quotaVars == << quota_store, cache_ttl, cache, domain_assignments_cache, now,
               lastResolve >>

\* the domain matcher
VARIABLES
    lastMatch                  \* the _matches_email_domain call just made

matcherVars == << lastMatch >>

\* concurrent resolve_user_quota calls on one QuotaResolver
VARIABLES
    tasks                      \* each call: where it is and its locals

raceVars == << tasks >>

\* a StateStore of OIDC state tokens and the calls that use it
VARIABLES
    backend,                   \* which StateStore class the store is
    items,                     \* self._store, or the DynamoDB table
    time,                      \* time.time()
    callers,                   \* DynamoDB get_and_delete_state calls in flight
    stored,                    \* how many store_state calls were made
    granted,                   \* per store_state call: (True, data) returns
    lastReturn                 \* the get_and_delete_state return just made

stateVars == << backend, items, time, callers, stored, granted, lastReturn >>

\* the agent cache of the inference API
VARIABLES
    agent_cache,               \* _agent_cache: its keys, in insertion order
    recency,                   \* the cached keys, least recently used first
    lastGet                    \* the get_agent call just made

agentVars == << agent_cache, recency, lastGet >>

\* when the admin service last wrote to the quota-store
VARIABLES
    changed_at                 \* time of the last write, -1 before the first

staleVars == << changed_at >>

\* the process environment and the stream_response runs that share it
VARIABLES
    environ,                   \* os.environ: SESSION_ID and USER_ID
    streams,                   \* each run: where it is and its arguments
    lastRead                   \* the read of os.environ a tool just made

envVars == << environ, streams, lastRead >>

\* a LocalSessionBuffer and the FileSessionManager it wraps
VARIABLES
    lsb_pending_messages,      \* self.pending_messages
    lsb_batch_size,            \* self.batch_size
    lsb_cancelled,             \* self.cancelled
    base_messages,             \* the message files of the base manager
    lsb_fed,                   \* number of append_message calls made
    lastLocal                  \* the LocalSessionBuffer call just made

localVars == << lsb_pending_messages, lsb_batch_size, lsb_cancelled,
                base_messages, lsb_fed, lastLocal >>

restVars == << matcherVars, raceVars, stateVars, agentVars, staleVars, envVars, localVars >>

vars == << sessionVars, streamVars, quotaVars, restVars >>

(***************************************************************************)
(* _should_flush_turn                                                      *)
(***************************************************************************)
has_tool_use(content) ==
    \E i \in 1..Len(content) : content[i].kind = "toolUse"

should_flush_turn(message, last_role) ==
    \/ message.role = "user" /\ last_role = "assistant"
    \/ message.role = "assistant" /\ ~ has_tool_use(message.content)

(***************************************************************************)
(* _merge_turn_messages: the loop extends merged_content with the content  *)
(* of each pending message in turn.                                        *)
(***************************************************************************)
\* a merge that puts the blocks of each later message first
RECURSIVE extend_all_reversed(_, _)
extend_all_reversed(merged_content, msgs) ==
    IF msgs = << >> THEN merged_content
    ELSE extend_all_reversed(Head(msgs).content \o merged_content, Tail(msgs))

RECURSIVE extend_all(_, _)
extend_all(merged_content, msgs) ==
    IF msgs = << >> THEN merged_content
    ELSE extend_all(merged_content \o Head(msgs).content, Tail(msgs))

\* a merge that takes the role of the last message
merge_with_last_role(pending) ==
    IF Len(pending) = 1 THEN pending[1]
    ELSE [role |-> pending[Len(pending)].role,
          content |-> extend_all(<< >>, pending),
          message_id |-> pending[1].message_id]

merge_turn_messages(pending) ==
    IF Len(pending) = 1 THEN pending[1]
    ELSE [role |-> pending[1].role,
          content |-> extend_all(<< >>, pending),
          message_id |-> pending[1].message_id]

(***************************************************************************)
(* _get_latest_message_id: the number of messages the store lists, None    *)
(* when the list is empty or listing fails.                                *)
(***************************************************************************)
\* a 0-based id: the count minus one
get_latest_zero_based(st, listOk) ==
    IF listOk /\ Len(st) > 0 THEN Some(Len(st) - 1) ELSE None

get_latest_message_id(st, listOk) ==
    IF listOk /\ Len(st) > 0 THEN Some(Len(st)) ELSE None

(***************************************************************************)
(* _store_uuid_mapping: nothing is stored when the conversations table is  *)
(* configured; otherwise the mapping file is read, the entry added and the *)
(* file written back.  An unreadable file is replaced; any other failure   *)
(* is swallowed.                                                           *)
(***************************************************************************)
EmptyMap == [k \in {} |-> NoId]

store_uuid_mapping(maps, uuid, seqid, cloud, outcome) ==
    IF cloud \/ outcome = "map_fails" THEN maps
    ELSE LET old == IF outcome = "map_read_fails" THEN EmptyMap ELSE maps
         IN  [k \in DOMAIN old \cup {seqid} |->
                 IF k = seqid THEN uuid ELSE old[k]]

(***************************************************************************)
(* _flush_turn, as a function of the buffer, the store and the mapping     *)
(* file.  The result names the state it leaves, the value returned, whether*)
(* the call raised, the collaborator calls it made, the number of them that*)
(* failed and, in `flushes`, what it merged.                               *)
(***************************************************************************)
NoFlush(pending, st, maps) ==
    [pending |-> pending, store |-> st, maps |-> maps, ret |-> None,
     raised |-> FALSE, creates |-> 0, lists |-> 0, hits |-> 0,
     flushes |-> << >>]

\* whether storing the mapping meets the failure h
MapHits(maps, cloud, h) ==
    IF cloud THEN 0
    ELSE IF h = "map_fails" THEN 1
    ELSE IF h = "map_read_fails" /\ DOMAIN maps # {} THEN 1
    ELSE 0

\* create_message raised: nothing after it in _flush_turn runs, the buffer
\* is as it was
FlushRaised(pending, st, maps, merged_message, ncreates) ==
    [pending |-> pending, store |-> st, maps |-> maps, ret |-> None,
     raised |-> TRUE, creates |-> ncreates, lists |-> 0, hits |-> 1,
     flushes |-> << [flushed |-> pending, merged |-> merged_message,
                     wrote |-> FALSE, listed |-> FALSE, ret |-> None] >>]

\* a flush that lets a failure of the mapping file escape: the record is
\* written, the buffer is not cleared and nothing is returned
FlushWritten_raising(pending, st2, maps, cloud, h, merged_message, ncreates) ==
    LET uuid_from_merged == merged_message.message_id
        sequential_message_id == get_latest_message_id(st2, h # "list_fails")
        mapped == uuid_from_merged # NoId /\ sequential_message_id # None
        failed == mapped /\ MapHits(maps, cloud, h) = 1
        maps2 == IF mapped /\ ~ failed
                 THEN store_uuid_mapping(maps, uuid_from_merged,
                          sequential_message_id[1], cloud, h)
                 ELSE maps
    IN [pending |-> IF failed THEN pending ELSE << >>,
        store |-> st2, maps |-> maps2,
        ret |-> IF failed THEN None ELSE sequential_message_id,
        raised |-> failed,
        creates |-> ncreates, lists |-> 1,
        hits |-> (IF h = "list_fails" THEN 1 ELSE 0)
                 + (IF mapped THEN MapHits(maps, cloud, h) ELSE 0),
        flushes |-> << [flushed |-> pending, merged |-> merged_message,
                        wrote |-> TRUE, listed |-> h # "list_fails",
                        ret |-> sequential_message_id] >>]

\* after create_message: the id is read back, the mapping stored, the
\* buffer cleared and the id returned; st2 is the store after the write
FlushWritten(pending, st2, maps, cloud, h, merged_message, ncreates) ==
    LET uuid_from_merged == merged_message.message_id
        sequential_message_id == get_latest_message_id(st2, h # "list_fails")
        mapped == uuid_from_merged # NoId /\ sequential_message_id # None
        maps2 == IF mapped
                 THEN store_uuid_mapping(maps, uuid_from_merged,
                          sequential_message_id[1], cloud, h)
                 ELSE maps
    IN [pending |-> << >>, store |-> st2, maps |-> maps2,
        ret |-> sequential_message_id, raised |-> FALSE,
        creates |-> ncreates, lists |-> 1,
        hits |-> (IF h = "list_fails" THEN 1 ELSE 0)
                 + (IF mapped THEN MapHits(maps, cloud, h) ELSE 0),
        flushes |-> << [flushed |-> pending, merged |-> merged_message,
                        wrote |-> TRUE, listed |-> h # "list_fails",
                        ret |-> sequential_message_id] >>]

\* the message handed to create_message
strands_message(m) == [role |-> m.role, content |-> m.content]

\* a flush that writes the pending messages one by one
flush_turn_per_message(pending, st, maps, cloud, h) ==
    IF pending = << >> THEN NoFlush(pending, st, maps)
    ELSE IF h = "write_fails"
    THEN FlushRaised(pending, st, maps, merge_turn_messages(pending), 1)
    ELSE FlushWritten(pending,
             st \o [i \in 1..Len(pending) |-> strands_message(pending[i])],
             maps, cloud, h, merge_turn_messages(pending), Len(pending))

flush_turn(pending, st, maps, cloud, h) ==
    IF pending = << >> THEN NoFlush(pending, st, maps)
    ELSE IF h = "write_fails"
    THEN FlushRaised(pending, st, maps, merge_turn_messages(pending), 1)
    ELSE FlushWritten(pending,
             Append(st, strands_message(merge_turn_messages(pending))),
             maps, cloud, h, merge_turn_messages(pending), 1)

(***************************************************************************)
(* add_message: flush the previous turn if the message closes it, append,  *)
(* then flush if the buffer has reached batch_size.  `last` is the value   *)
(* of last_message_role the call leaves; `used` tells that each failure    *)
(* drawn for the call was met by it.                                       *)
(***************************************************************************)
add_message(message, h1, h2) ==
    LET f1 == IF should_flush_turn(message, last_message_role)
              THEN flush_turn(pending_messages, store, uuid_mappings,
                              conversations_table, h1)
              ELSE NoFlush(pending_messages, store, uuid_mappings)
    IN
    IF f1.raised
    THEN [pending |-> f1.pending, store |-> f1.store, maps |-> f1.maps,
          ret |-> None, raised |-> TRUE, creates |-> f1.creates,
          lists |-> f1.lists, hits |-> f1.hits, flushes |-> f1.flushes,
          last |-> last_message_role, used |-> h2 = "ok"]
    ELSE
      LET appended == Append(f1.pending, message)
          f2 == IF Len(appended) >= batch_size
                THEN flush_turn(appended, f1.store, f1.maps,
                                conversations_table, h2)
                ELSE NoFlush(appended, f1.store, f1.maps)
      IN [pending |-> f2.pending, store |-> f2.store, maps |-> f2.maps,
          ret |-> None, raised |-> f2.raised,
          creates |-> f1.creates + f2.creates,
          lists |-> f1.lists + f2.lists,
          hits |-> f1.hits + f2.hits,
          flushes |-> f1.flushes \o f2.flushes,
          last |-> message.role,
          used |-> /\ (h1 = "ok" \/ f1.hits = 1)
                   /\ (h2 = "ok" \/ f2.hits = 1)]

\* the state a call leaves, from the result of add_message or _flush_turn
Leaves(r, last) ==
    /\ pending_messages' = r.pending
    /\ store' = r.store
    /\ uuid_mappings' = r.maps
    /\ last_message_role' = last
    /\ creates' = creates + r.creates
    /\ lists' = lists + r.lists
    /\ faults' = faults + r.hits

Call(op, r, dropped) ==
    [op |-> op, raised |-> r.raised, ret |-> r.ret, flushes |-> r.flushes,
     dropped |-> dropped]

(***************************************************************************)
(* append_message(message, agent, message_id): the entry point the agent   *)
(* framework calls.  A cancelled session ignores the message.  The         *)
(* message_id, injected by the caller or generated as a fallback, is a     *)
(* fresh non-empty id either way: the number of the message.               *)
(***************************************************************************)
AppendMessage(shape, h1, h2) ==
    LET n == Len(fed) + 1
        message_id == n
        message_dict == Message(shape, n, message_id)
    IN /\ fed' = Append(fed, shape)
       /\ IF cancelled
          THEN /\ h1 = "ok" /\ h2 = "ok"
               /\ UNCHANGED << pending_messages, store, uuid_mappings,
                               last_message_role, creates, lists, faults >>
               /\ lastCall' = Call("append_message",
                                   NoFlush(pending_messages, store,
                                           uuid_mappings), TRUE)
          ELSE \E r \in {add_message(message_dict, h1, h2)} :
               /\ r.used
               /\ Leaves(r, r.last)
               /\ lastCall' = Call("append_message", r, FALSE)
       /\ UNCHANGED << batch_size, cancelled, conversations_table, atCancel >>

(***************************************************************************)
(* add_message(message) called directly, with a message dict that carries  *)
(* no message_id.                                                          *)
(***************************************************************************)
AddMessage(shape, h1, h2) ==
    LET n == Len(fed) + 1
        message == Message(shape, n, NoId)
    IN \E r \in {add_message(message, h1, h2)} :
       /\ r.used
       /\ fed' = Append(fed, shape)
       /\ Leaves(r, r.last)
       /\ lastCall' = Call("add_message", r, FALSE)
       /\ UNCHANGED << batch_size, cancelled, conversations_table, atCancel >>

(***************************************************************************)
(* flush(): force flush of the pending messages.                           *)
(***************************************************************************)
Flush(h) ==
    \E r \in {flush_turn(pending_messages, store, uuid_mappings,
                         conversations_table, h)} :
       /\ h = "ok" \/ r.hits = 1
       /\ Leaves(r, last_message_role)
       /\ lastCall' = Call("flush", r, FALSE)
       /\ UNCHANGED << batch_size, cancelled, conversations_table, fed,
                       atCancel >>

(***************************************************************************)
(* The owner of the session sets the cancelled flag.                       *)
(***************************************************************************)
Cancel ==
    /\ ~ cancelled
    /\ cancelled' = TRUE
    /\ atCancel' = pending_messages
    /\ lastCall' = Call("cancel", NoFlush(pending_messages, store,
                                          uuid_mappings), FALSE)
    /\ UNCHANGED << pending_messages, last_message_role, batch_size, store,
                    uuid_mappings, conversations_table, creates, lists,
                    faults, fed >>

(***************************************************************************)
(* __init__                                                                *)
(***************************************************************************)
InitWith(sizes) ==
    /\ pending_messages = << >>
    /\ last_message_role = "none"
    /\ batch_size \in sizes
    /\ cancelled = FALSE
    /\ store = << >>
    /\ uuid_mappings = EmptyMap
    /\ conversations_table \in BOOLEAN
    /\ creates = 0
    /\ lists = 0
    /\ faults = 0
    /\ fed = << >>
    /\ atCancel = << >>
    /\ lastCall = Call("init", NoFlush(<< >>, << >>, EmptyMap), FALSE)

\* a resolver that has resolved nothing, on an empty quota-store
NoQuota ==
    /\ quota_store = << >>
    /\ cache_ttl = 0
    /\ cache = << >>
    /\ domain_assignments_cache = << >>
    /\ now = 0
    /\ lastResolve = << >>

\* no call of the domain matcher was made
NoMatch == lastMatch = << >>

\* no concurrent resolve_user_quota calls are modelled
NoTasks == tasks = << >>

\* no StateStore was created
NoStateStore ==
    /\ backend = "none"
    /\ items = << >>
    /\ time = 0
    /\ callers = << >>
    /\ stored = 0
    /\ granted = << >>
    /\ lastReturn = << >>

\* the inference API is not loaded
NoAgentCache ==
    /\ agent_cache = << >>
    /\ recency = << >>
    /\ lastGet = << >>

\* the admin service has written nothing
NoStale == changed_at = -1

\* no stream_response run shares the process environment
NoEnv ==
    /\ environ = << >>
    /\ streams = << >>
    /\ lastRead = << >>

\* no LocalSessionBuffer was created
NoLocal ==
    /\ lsb_pending_messages = << >>
    /\ lsb_batch_size = 0
    /\ lsb_cancelled = FALSE
    /\ base_messages = << >>
    /\ lsb_fed = 0
    /\ lastLocal = << >>

NoLate == NoStale /\ NoEnv /\ NoLocal

NoRest == NoMatch /\ NoTasks /\ NoStateStore /\ NoAgentCache /\ NoLate

\* no stream_response is running
NoStream ==
    /\ pc = "idle"
    /\ exposes_flush = TRUE
    /\ metadata_seen = FALSE
    /\ trace = << >>

Init == InitWith(BatchSizes) /\ NoStream /\ NoQuota /\ NoRest

(***************************************************************************)
(* Spec: the session as the stream drives it: the framework appends, the   *)
(* coordinator flushes, the owner cancels, collaborators may fail.         *)
(***************************************************************************)
Next ==
    \/ \E shape \in Shapes, h1, h2 \in Outcomes :
          /\ Len(fed) < MaxMsgs
          /\ AppendMessage(shape, h1, h2)
          /\ faults' <= MaxFaults
          /\ UNCHANGED << streamVars, quotaVars, restVars >>
    \/ \E h \in Outcomes :
          Flush(h) /\ faults' <= MaxFaults /\ UNCHANGED << streamVars, quotaVars, restVars >>
    \/ Cancel /\ UNCHANGED << streamVars, quotaVars, restVars >>

Spec == Init /\ [][Next]_vars

(***************************************************************************)
(* SpecDirect: as Spec, with add_message also called directly.             *)
(***************************************************************************)
NextDirect ==
    \/ \E shape \in Shapes, h1, h2 \in Outcomes :
          /\ Len(fed) < MaxDirectMsgs
          /\ AppendMessage(shape, h1, h2)
          /\ faults' <= MaxFaults
          /\ UNCHANGED << streamVars, quotaVars, restVars >>
    \/ \E shape \in Shapes, h1, h2 \in Outcomes :
          /\ Len(fed) < MaxDirectMsgs
          /\ AddMessage(shape, h1, h2)
          /\ faults' <= MaxFaults
          /\ UNCHANGED << streamVars, quotaVars, restVars >>
    \/ \E h \in Outcomes :
          Flush(h) /\ faults' <= MaxFaults /\ UNCHANGED << streamVars, quotaVars, restVars >>
    \/ Cancel /\ UNCHANGED << streamVars, quotaVars, restVars >>

SpecDirect == Init /\ [][NextDirect]_vars

(***************************************************************************)
(* SpecTurn: messages fed one append at a time to an empty buffer on a     *)
(* healthy store, with no other call in between.                           *)
(***************************************************************************)
NextTurn ==
    \E shape \in Shapes :
       /\ Len(fed) < MaxTurnMsgs
       /\ AppendMessage(shape, "ok", "ok")
       /\ UNCHANGED << streamVars, quotaVars, restVars >>

SpecTurn == Init /\ [][NextTurn]_vars

(***************************************************************************)
(* SpecBound: a long run of user messages, which never close a turn, on a  *)
(* store whose writes may fail, with the default batch_size or a large one.*)
(***************************************************************************)
InitBound ==
    InitWith({DefaultBatchSize, LargeBatchSize}) /\ NoStream /\ NoQuota /\ NoRest

NextBound ==
    \E h1, h2 \in {"ok", "write_fails"} :
       /\ Len(fed) < MaxBoundMsgs
       /\ AppendMessage("U", h1, h2)
       /\ UNCHANGED << streamVars, quotaVars, restVars >>

SpecBound == InitBound /\ [][NextBound]_vars

(***************************************************************************)
(* StreamCoordinator.stream_response.  The run is at "idle" before the     *)
(* generator is started, at "streaming" inside the async for over the agent*)
(* stream, at "exhausted" when the agent stream has ended, at "flush"      *)
(* before _flush_session, at "handler" when an exception has reached the   *)
(* except clause, and at "done" or "raised" when the generator has         *)
(* finished, by returning or by an exception leaving it.                   *)
(***************************************************************************)
StreamOutcomes == {"ok", "write_fails"}

EventKinds == {"message", "metadata"}

Entry(ev, raised) == [ev |-> ev, raised |-> raised]

\* the events of the client among the entries of a trace
RECURSIVE ClientEvents(_)
ClientEvents(tr) ==
    IF tr = << >> THEN << >>
    ELSE IF Head(tr).ev \in EventKinds \cup {"error"}
         THEN << Head(tr).ev >> \o ClientEvents(Tail(tr))
         ELSE ClientEvents(Tail(tr))

\* lines 48-59: the generator starts
StartStream ==
    /\ pc = "idle"
    /\ pc' = "streaming"
    /\ metadata_seen' = FALSE
    /\ UNCHANGED << sessionVars, exposes_flush, trace >>

\* the agent, while it streams, appends a message to the session manager;
\* an exception of append_message escapes the agent stream
StreamAppend(shape, h1, h2) ==
    /\ pc = "streaming"
    /\ exposes_flush
    /\ AppendMessage(shape, h1, h2)
    /\ pc' = IF lastCall'.raised THEN "handler" ELSE "streaming"
    /\ UNCHANGED << exposes_flush, metadata_seen, trace >>

\* lines 62-71: one event of the agent stream is formatted and yielded
StreamEvent(kind) ==
    /\ pc = "streaming"
    /\ trace' = Append(trace, Entry(kind, FALSE))
    /\ metadata_seen' = (metadata_seen \/ kind = "metadata")
    /\ UNCHANGED << sessionVars, pc, exposes_flush >>

\* an exception escapes the agent stream
StreamRaises ==
    /\ pc = "streaming"
    /\ pc' = "handler"
    /\ UNCHANGED << sessionVars, exposes_flush, metadata_seen, trace >>

\* the agent stream ends
StreamEnds ==
    /\ pc = "streaming"
    /\ pc' = "exhausted"
    /\ UNCHANGED << sessionVars, exposes_flush, metadata_seen, trace >>

\* lines 75-114: the metadata fallback; has_metrics tells whether the
\* agent's last result yields metadata
MetadataFallback(has_metrics) ==
    /\ pc = "exhausted"
    /\ pc' = "flush"
    /\ trace' = IF ~ metadata_seen /\ has_metrics
                THEN Append(trace, Entry("metadata", FALSE))
                ELSE trace
    /\ UNCHANGED << sessionVars, exposes_flush, metadata_seen >>

\* line 117 and _flush_session: flush() is called inside the try block, so
\* an exception of flush() reaches the except clause
FlushSession(h) ==
    /\ pc = "flush"
    /\ IF exposes_flush
       THEN /\ Flush(h)
            /\ trace' = Append(trace, Entry("flush_session", lastCall'.raised))
            /\ pc' = IF lastCall'.raised THEN "handler" ELSE "done"
       ELSE /\ h = "ok"
            /\ pc' = "done"
            /\ UNCHANGED << sessionVars, trace >>
    /\ UNCHANGED << exposes_flush, metadata_seen >>

\* an emergency flush with no try block around flush()
unguarded_emergency_flush(flush_raised) == flush_raised

\* whether an exception of flush() leaves _emergency_flush: the call is in
\* a try block whose except clause logs
escapes_emergency_flush(flush_raised) == FALSE

\* lines 119-129 and _emergency_flush: the emergency flush, then the error
\* event
ErrorHandler(h) ==
    /\ pc = "handler"
    /\ IF exposes_flush
       THEN /\ Flush(h)
            /\ IF escapes_emergency_flush(lastCall'.raised)
               THEN /\ pc' = "raised"
                    /\ trace' = Append(trace, Entry("emergency_flush", TRUE))
               ELSE /\ pc' = "done"
                    /\ trace' = trace \o
                          << Entry("emergency_flush", lastCall'.raised),
                             Entry("error", FALSE) >>
       ELSE /\ h = "ok"
            /\ pc' = "done"
            /\ trace' = Append(trace, Entry("error", FALSE))
            /\ UNCHANGED sessionVars
    /\ UNCHANGED << exposes_flush, metadata_seen >>

InitStream ==
    /\ InitWith({DefaultBatchSize})
    /\ NoQuota
    /\ NoRest
    /\ pc = "idle"
    /\ exposes_flush \in BOOLEAN
    /\ metadata_seen = FALSE
    /\ trace = << >>

NextStream ==
    \/ StartStream /\ UNCHANGED << quotaVars, restVars >>
    \/ \E shape \in Shapes, h1, h2 \in StreamOutcomes :
          /\ Len(fed) < MaxStreamMsgs
          /\ StreamAppend(shape, h1, h2)
          /\ UNCHANGED << quotaVars, restVars >>
    \/ \E kind \in EventKinds :
          /\ Len(ClientEvents(trace)) < MaxEvents
          /\ StreamEvent(kind)
          /\ UNCHANGED << quotaVars, restVars >>
    \/ StreamRaises /\ UNCHANGED << quotaVars, restVars >>
    \/ StreamEnds /\ UNCHANGED << quotaVars, restVars >>
    \/ \E has_metrics \in BOOLEAN :
          MetadataFallback(has_metrics) /\ UNCHANGED << quotaVars, restVars >>
    \/ \E h \in StreamOutcomes : FlushSession(h) /\ UNCHANGED << quotaVars, restVars >>
    \/ \E h \in StreamOutcomes : ErrorHandler(h) /\ UNCHANGED << quotaVars, restVars >>

SpecStream == InitStream /\ [][NextStream]_vars

(***************************************************************************)
(* SpecClose: as SpecStream, with the consumer closing the generator and   *)
(* the task that runs it being cancelled.                                  *)
(***************************************************************************)
\* whether the generator is suspended at a yield inside the try block: at
\* line 71 after an event of the agent stream, or at line 112 after the
\* metadata of the fallback
suspended_at_yield ==
    /\ trace # << >>
    /\ trace[Len(trace)].ev \in EventKinds
    /\ \/ pc = "streaming"
       \/ pc = "flush" /\ ~ metadata_seen /\ trace[Len(trace)].ev = "metadata"

\* the consumer closes the generator (aclose): GeneratorExit is raised at
\* the yield; it is not an Exception, so the except clause of line 119 does
\* not run, and there is no finally
ClientCloses ==
    /\ suspended_at_yield
    /\ pc' = "closed"
    /\ UNCHANGED << sessionVars, exposes_flush, metadata_seen, trace >>

\* the task that runs the generator is cancelled while it awaits the next
\* event of the agent stream: asyncio.CancelledError is raised at the await
\* of line 62; it is a BaseException and passes the except clause too
TaskCancelled ==
    /\ pc = "streaming"
    /\ pc' = "cancelled"
    /\ UNCHANGED << sessionVars, exposes_flush, metadata_seen, trace >>

NextClose ==
    \/ NextStream
    \/ ClientCloses /\ UNCHANGED << quotaVars, restVars >>
    \/ TaskCancelled /\ UNCHANGED << quotaVars, restVars >>

SpecClose == InitStream /\ [][NextClose]_vars

(***************************************************************************)
(* SpecEnv: runs of stream_response in one process, interleaved at their   *)
(* awaits and yields, and the tools that read os.environ.                  *)
(***************************************************************************)
StreamIds == {"g1", "g2"}

SessionIds == {"S1", "S2"}

EnvUserIds == {"U1", "U2"}

\* a variable of os.environ that is not set
Unset == ""

IdleStream == [pc |-> "idle", session_id |-> Unset, user_id |-> Unset]

\* lines 48-49, up to the first await of the run: the two assignments to
\* os.environ, with no suspension point between them
SetEnviron(id, session_id, user_id) ==
    /\ streams[id].pc = "idle"
    /\ environ' = [SESSION_ID |-> session_id, USER_ID |-> user_id]
    /\ streams' = [streams EXCEPT ![id] = [pc |-> "streaming", session_id |-> session_id, user_id |-> user_id]]
    /\ UNCHANGED lastRead

\* a tool the agent of the run calls reads SESSION_ID and USER_ID
ToolReads(id) ==
    /\ streams[id].pc = "streaming"
    /\ lastRead' = [session_id |-> streams[id].session_id, user_id |-> streams[id].user_id, SESSION_ID |-> environ.SESSION_ID, USER_ID |-> environ.USER_ID]
    /\ UNCHANGED << environ, streams >>

\* the run ends; os.environ is left as it is
EndStream(id) ==
    /\ streams[id].pc = "streaming"
    /\ streams' = [streams EXCEPT ![id] = IdleStream]
    /\ UNCHANGED << environ, lastRead >>

InitEnv ==
    /\ InitWith({DefaultBatchSize})
    /\ conversations_table = FALSE
    /\ NoStream
    /\ NoQuota
    /\ NoMatch /\ NoTasks /\ NoStateStore /\ NoAgentCache
    /\ NoStale /\ NoLocal
    /\ environ = [SESSION_ID |-> Unset, USER_ID |-> Unset]
    /\ streams = [id \in StreamIds |-> IdleStream]
    /\ lastRead = << >>

EnvRest == << sessionVars, streamVars, quotaVars, matcherVars, raceVars, stateVars, agentVars, staleVars, localVars >>

NextEnv ==
    \/ \E id \in StreamIds, session_id \in SessionIds, user_id \in EnvUserIds :
          /\ \A other \in StreamIds : streams[other].session_id # session_id
          /\ SetEnviron(id, session_id, user_id)
          /\ UNCHANGED EnvRest
    \/ \E id \in StreamIds : ToolReads(id) /\ UNCHANGED EnvRest
    \/ \E id \in StreamIds : EndStream(id) /\ UNCHANGED EnvRest

SpecEnv == InitEnv /\ [][NextEnv]_vars

(***************************************************************************)
(* SpecLocal: a LocalSessionBuffer on a FileSessionManager whose writes    *)
(* may fail.                                                               *)
(***************************************************************************)
MaxLocalMsgs == 4

MaxLocalBatch == 3

LocalShapes == {"U", "AT"}

\* message_dict of append_message, and strands_message of flush: the role
\* and the content of the message, nothing else
message_dict(message) == [role |-> message.role, content |-> message.content]

\* the for loop of flush from the k-th pending message on: each message is
\* passed to base_manager.append_message, which stores it unless it raises
RECURSIVE write_each(_, _, _, _)
write_each(pending, base, fails, k) ==
    IF k > Len(pending) THEN base
    ELSE write_each(pending,
                    IF k \in fails THEN base
                    ELSE Append(base, message_dict(pending[k])),
                    fails, k + 1)

\* _get_latest_message_id: the highest message number, None when there is
\* no message file or the directory cannot be read
local_latest_message_id(base, list_ok) ==
    IF list_ok /\ base # << >> THEN Some(Len(base)) ELSE None

LocalResult(pending, base, ret, raised, flushed, failed) ==
    [pending |-> pending, base |-> base, ret |-> ret, raised |-> raised,
     flushed |-> flushed, failed |-> failed]

\* a flush whose loop has no try block: the first failing write raises out
\* of flush, with the buffer as it was
local_flush_unguarded(pending, base, fails, list_ok) ==
    LET bad == {k \in 1..Len(pending) : k \in fails}
        first == IF bad = {} THEN Len(pending) + 1
                 ELSE CHOOSE k \in bad : \A j \in bad : k <= j
        written == write_each(SubSeq(pending, 1, first - 1), base, {}, 1)
    IN IF pending = << >>
       THEN LocalResult(pending, base, None, FALSE, << >>, {})
       ELSE IF bad = {}
       THEN LocalResult(<< >>, written,
                        local_latest_message_id(written, list_ok), FALSE,
                        pending, bad)
       ELSE LocalResult(pending, written, None, TRUE, pending, bad)

\* flush(): fails holds the positions of the pending messages whose write
\* raises, list_ok tells whether the message directory can be read
local_flush(pending, base, fails, list_ok) ==
    LET written == write_each(pending, base, fails, 1)
    IN IF pending = << >>
       THEN LocalResult(pending, base, None, FALSE, << >>, {})
       ELSE LocalResult(<< >>, written,
                        local_latest_message_id(written, list_ok), FALSE,
                        pending, {k \in 1..Len(pending) : k \in fails})

LocalCall(op, r, dropped) ==
    [op |-> op, ret |-> r.ret, raised |-> r.raised, flushed |-> r.flushed,
     failed |-> r.failed, dropped |-> dropped]

\* append_message(message, agent)
LocalAppendMessage(shape, fails, list_ok) ==
    LET n == lsb_fed + 1
        appended == Append(lsb_pending_messages,
                           message_dict(Message(shape, n, n)))
        r == IF Len(appended) >= lsb_batch_size
             THEN local_flush(appended, base_messages, fails, list_ok)
             ELSE LocalResult(appended, base_messages, None, FALSE, << >>, {})
    IN /\ lsb_fed' = n
       /\ IF lsb_cancelled
          THEN /\ fails = {} /\ list_ok
               /\ UNCHANGED << lsb_pending_messages, base_messages >>
               /\ lastLocal' = LocalCall("append_message",
                                  LocalResult(lsb_pending_messages,
                                              base_messages, None, FALSE,
                                              << >>, {}), TRUE)
          ELSE /\ fails \subseteq 1..Len(r.flushed)
               /\ list_ok \/ r.flushed # << >>
               /\ lsb_pending_messages' = r.pending
               /\ base_messages' = r.base
               /\ lastLocal' = LocalCall("append_message", r, FALSE)
       /\ UNCHANGED << lsb_batch_size, lsb_cancelled >>

\* flush() called by the owner of the buffer
LocalFlush(fails, list_ok) ==
    \E r \in {local_flush(lsb_pending_messages, base_messages, fails, list_ok)} :
       /\ fails \subseteq 1..Len(r.flushed)
       /\ list_ok \/ r.flushed # << >>
       /\ lsb_pending_messages' = r.pending
       /\ base_messages' = r.base
       /\ lastLocal' = LocalCall("flush", r, FALSE)
       /\ UNCHANGED << lsb_batch_size, lsb_cancelled, lsb_fed >>

\* the owner of the session sets the cancelled flag
LocalCancel ==
    /\ ~ lsb_cancelled
    /\ lsb_cancelled' = TRUE
    /\ lastLocal' = LocalCall("cancel",
                       LocalResult(lsb_pending_messages, base_messages, None,
                                   FALSE, << >>, {}), FALSE)
    /\ UNCHANGED << lsb_pending_messages, lsb_batch_size, base_messages, lsb_fed >>

\* LocalSessionBuffer(base_manager, session_id, batch_size)
InitLocal ==
    /\ InitWith({DefaultBatchSize})
    /\ conversations_table = FALSE
    /\ NoStream
    /\ NoQuota
    /\ NoMatch /\ NoTasks /\ NoStateStore /\ NoAgentCache
    /\ NoStale /\ NoEnv
    /\ lsb_pending_messages = << >>
    /\ lsb_batch_size \in 1..MaxLocalBatch
    /\ lsb_cancelled = FALSE
    /\ base_messages = << >>
    /\ lsb_fed = 0
    /\ lastLocal = LocalCall("init", LocalResult(<< >>, << >>, None, FALSE, << >>, {}), FALSE)

LocalRest == << sessionVars, streamVars, quotaVars, matcherVars, raceVars, stateVars, agentVars, staleVars, envVars >>

NextLocal ==
    \/ \E shape \in LocalShapes, fails \in SUBSET (1..MaxLocalBatch), list_ok \in BOOLEAN :
          /\ lsb_fed < MaxLocalMsgs
          /\ LocalAppendMessage(shape, fails, list_ok)
          /\ UNCHANGED LocalRest
    \/ \E fails \in SUBSET (1..MaxLocalBatch), list_ok \in BOOLEAN :
          LocalFlush(fails, list_ok) /\ UNCHANGED LocalRest
    \/ LocalCancel /\ UNCHANGED LocalRest

SpecLocal == InitLocal /\ [][NextLocal]_vars

(***************************************************************************)
(* QuotaResolver.  Strings the code takes apart (emails, domains, patterns)*)
(* are sequences of tokens: the one-character tokens "@", ".", ",", " " and*)
(* "*", the prefix token "regex:", and words, which hold none of these.    *)
(***************************************************************************)
StartsWith(str, prefix) ==
    /\ Len(prefix) <= Len(str)
    /\ \A i \in 1..Len(prefix) : str[i] = prefix[i]

EndsWith(str, suffix) ==
    /\ Len(suffix) <= Len(str)
    /\ \A i \in 1..Len(suffix) :
          str[Len(str) - Len(suffix) + i] = suffix[i]

\* str[n:]
From(str, n) == SubSeq(str, n + 1, Len(str))

Contains(str, token) == \E i \in 1..Len(str) : str[i] = token

\* str.split(sep)
RECURSIVE split(_, _)
split(str, sep) ==
    IF ~ Contains(str, sep) THEN << str >>
    ELSE LET i == CHOOSE k \in 1..Len(str) :
                     str[k] = sep /\ \A j \in 1..(k - 1) : str[j] # sep
         IN << SubSeq(str, 1, i - 1) >> \o split(From(str, i), sep)

\* str.strip()
RECURSIVE strip(_)
strip(str) ==
    IF str = << >> THEN str
    ELSE IF Head(str) = " " THEN strip(Tail(str))
    ELSE IF str[Len(str)] = " " THEN strip(SubSeq(str, 1, Len(str) - 1))
    ELSE str

University == << "university", ".", "edu" >>
CsUniversity == << "cs", "." >> \o University
EngUniversity == << "eng", "." >> \o University
OtherEdu == << "other", ".", "edu" >>

\* the regular expressions of the patterns: a name stands for an
\* expression, the tokens after it for themselves.  "cs_or_eng" is
\* ^(cs|eng)\.university\.edu$, after which nothing can match;
\* "unanchored" is university\.edu, which re.match anchors at the start
\* only; "invalid" does not compile, whatever follows it; the empty
\* expression matches every string.
re_match(regex_pattern, user_domain) ==
    IF regex_pattern = << >> THEN [error |-> FALSE, match |-> TRUE]
    ELSE IF Head(regex_pattern) = "invalid"
    THEN [error |-> TRUE, match |-> FALSE]
    ELSE IF Head(regex_pattern) = "cs_or_eng"
    THEN [error |-> FALSE,
          match |-> /\ Tail(regex_pattern) = << >>
                    /\ user_domain \in {CsUniversity, EngUniversity}]
    ELSE IF Head(regex_pattern) = "unanchored"
    THEN [error |-> FALSE,
          match |-> StartsWith(user_domain,
                               University \o Tail(regex_pattern))]
    ELSE [error |-> FALSE, match |-> StartsWith(user_domain, regex_pattern)]

\* what a call of _matches_email_domain does: raise, or return a value
MatchOutcome(raised, value) == [raised |-> raised, value |-> value]

\* a wildcard rule for proper subdomains only
wildcard_subdomains_only(user_domain, base_domain) ==
    EndsWith(user_domain, << "." >> \o base_domain)

\* user_domain == base_domain or user_domain.endswith('.' + base_domain)
wildcard_rule(user_domain, base_domain) ==
    \/ user_domain = base_domain
    \/ EndsWith(user_domain, << "." >> \o base_domain)

\* a regex branch without the except clause
uncaught_re_error(regex_pattern) == MatchOutcome(TRUE, FALSE)

\* except re.error: log and return False
except_re_error(regex_pattern) == MatchOutcome(FALSE, FALSE)

\* _matches_email_domain, and the any(...) of its last branch, which stops
\* at the first element that matches
RECURSIVE matches_email_domain(_, _)
RECURSIVE any_matches(_, _)
matches_email_domain(user_domain, pattern) ==
    IF pattern = << >> THEN MatchOutcome(FALSE, FALSE)
    ELSE IF pattern = user_domain THEN MatchOutcome(FALSE, TRUE)
    ELSE IF StartsWith(pattern, << "*", "." >>)
    THEN MatchOutcome(FALSE, wildcard_rule(user_domain, From(pattern, 2)))
    ELSE IF StartsWith(pattern, << "regex:" >>)
    THEN LET regex_pattern == From(pattern, 1)
             m == re_match(regex_pattern, user_domain)
         IN IF m.error THEN except_re_error(regex_pattern)
            ELSE MatchOutcome(FALSE, m.match)
    ELSE IF Contains(pattern, ",")
    THEN LET parts == split(pattern, ",")
             domains == [i \in 1..Len(parts) |-> strip(parts[i])]
         IN any_matches(user_domain, domains)
    ELSE MatchOutcome(FALSE, FALSE)

any_matches(user_domain, domains) ==
    IF domains = << >> THEN MatchOutcome(FALSE, FALSE)
    ELSE LET o == matches_email_domain(user_domain, Head(domains))
         IN IF o.raised \/ o.value THEN o
            ELSE any_matches(user_domain, Tail(domains))

(***************************************************************************)
(* The records of the quota-store.                                         *)
(***************************************************************************)
TierIds == {"tA", "tB", "tOff", "tGone"}

\* get_tier: tA and tB are enabled tiers, tOff is a disabled tier, tGone is
\* not in the store
Tiers ==
    [t \in TierIds |-> [exists |-> t # "tGone", enabled |-> t \in {"tA", "tB"}]]

Roles == {"r1", "r2"}

NoPattern == << >>

Assignment(type, tier_id, priority, enabled, jwt_role, email_domain) ==
    [assignment_type |-> type, tier_id |-> tier_id, priority |-> priority,
     enabled |-> enabled, jwt_role |-> jwt_role,
     email_domain |-> email_domain]

QuotaTier(tier_id, action_on_limit) ==
    [tier_id |-> tier_id, enabled |-> TRUE,
     action_on_limit |-> action_on_limit]

\* _override_to_tier
override_to_tier(override) ==
    IF override.override_type = "unlimited"
    THEN QuotaTier("override", "warn")
    ELSE QuotaTier("override", "block")

ResolvedQuota(user, tier, matched_by, assignment, override) ==
    [user_id |-> user.user_id, tier |-> tier, matched_by |-> matched_by,
     assignment |-> assignment, override |-> override]

\* a sort by descending priority that keeps the order of equal priorities,
\* as list.sort(key=priority, reverse=True) does
RECURSIVE insert_by_priority(_, _)
insert_by_priority(sorted, a) ==
    IF sorted = << >> THEN << a >>
    ELSE IF Head(sorted).priority >= a.priority
         THEN << Head(sorted) >> \o insert_by_priority(Tail(sorted), a)
         ELSE << a >> \o sorted

RECURSIVE sort_by_priority(_)
sort_by_priority(assignments) ==
    IF assignments = << >> THEN << >>
    ELSE insert_by_priority(
             sort_by_priority(SubSeq(assignments, 1, Len(assignments) - 1)),
             assignments[Len(assignments)])

(***************************************************************************)
(* The calls on the repository, as functions of what it holds.             *)
(***************************************************************************)
UserIds == {"u1", "u2"}

get_active_override(qs, user_id) == qs.override[user_id]

query_user_assignment(qs, user_id) == qs.user_assignment[user_id]

query_role_assignments(qs, role) == qs.role_assignments[role]

IsEnabled(a) == a.enabled

\* list_assignments_by_type(assignment_type, enabled_only=True)
list_assignments_by_type(qs, assignment_type) ==
    IF assignment_type = "email_domain"
    THEN SelectSeq(qs.domain_assignments, IsEnabled)
    ELSE SelectSeq(qs.default_assignments, IsEnabled)

get_tier(qs, tier_id) ==
    IF qs.tiers[tier_id].exists
    THEN Some([tier_id |-> tier_id, enabled |-> qs.tiers[tier_id].enabled,
               action_on_limit |-> "block"])
    ELSE None

\* `tier and tier.enabled` for the tier get_tier returns
tier_usable(qs, tier_id) ==
    get_tier(qs, tier_id) # None /\ get_tier(qs, tier_id)[1].enabled

(***************************************************************************)
(* _get_cache_key.  hash(frozenset(roles)) depends on the set of the roles *)
(* only; it is taken to differ between the role sets of the model and from *)
(* 0.                                                                      *)
(***************************************************************************)
RoleBit(role) == IF role = "r1" THEN 1 ELSE 2

RoleSetOf(roles) == {roles[i] : i \in 1..Len(roles)}

hash_frozenset(role_set) ==
    (IF "r1" \in role_set THEN RoleBit("r1") ELSE 0)
    + (IF "r2" \in role_set THEN RoleBit("r2") ELSE 0)

\* a cache key without the roles
get_cache_key_of_user_id(user) == << user.user_id, 0 >>

get_cache_key(user) ==
    << user.user_id,
       IF user.roles # << >> THEN hash_frozenset(RoleSetOf(user.roles))
       ELSE 0 >>

(***************************************************************************)
(* _get_cached_domain_assignments at time t.                               *)
(***************************************************************************)
get_cached_domain_assignments(qs, dcache, t, ttl) ==
    IF dcache # None /\ t - dcache[1].cached_at < ttl
    THEN [assignments |-> dcache[1].assignments, dcache |-> dcache,
          calls |-> << >>]
    ELSE LET assignments == list_assignments_by_type(qs, "email_domain")
         IN [assignments |-> assignments,
             dcache |-> Some([assignments |-> assignments, cached_at |-> t]),
             calls |-> << "list_assignments_by_type(email_domain)" >>]

(***************************************************************************)
(* _resolve_from_db, step by step.  Each step gives the ResolvedQuota it   *)
(* returns, or None when the chain goes on, and the repository calls it    *)
(* made.                                                                   *)
(***************************************************************************)
Found(resolved, calls) == [resolved |-> resolved, calls |-> calls]

GetTierCalls(n) == [i \in 1..n |-> "get_tier"]

\* the loop over the candidates of a step, in order: the first whose tier
\* is usable is returned; get_tier is called for each candidate tried
first_usable(qs, user, candidates, matched_by_prefix) ==
    LET usable == {k \in 1..Len(candidates) :
                      tier_usable(qs, candidates[k].tier_id)}
    IN IF usable = {}
       THEN Found(None, GetTierCalls(Len(candidates)))
       ELSE LET k == CHOOSE i \in usable : \A j \in usable : i <= j
                a == candidates[k]
                detail == IF matched_by_prefix = "jwt_role"
                          THEN << a.jwt_role >> ELSE a.email_domain
            IN Found(Some(ResolvedQuota(user, get_tier(qs, a.tier_id)[1],
                                        << matched_by_prefix >> \o detail,
                                        Some(a), None)),
                     GetTierCalls(k))

\* 1. active override
override_step(qs, user) ==
    LET override == get_active_override(qs, user.user_id)
    IN Found(IF override # None
             THEN Some(ResolvedQuota(user, override_to_tier(override[1]),
                                     << "override" >>, None, override))
             ELSE None,
             << "get_active_override" >>)

\* 2. direct user assignment
direct_user_step(qs, user) ==
    LET user_assignment == query_user_assignment(qs, user.user_id)
    IN IF user_assignment # None /\ user_assignment[1].enabled
       THEN Found(IF tier_usable(qs, user_assignment[1].tier_id)
                  THEN Some(ResolvedQuota(user,
                                get_tier(qs, user_assignment[1].tier_id)[1],
                                << "direct_user" >>, user_assignment, None))
                  ELSE None,
                  << "query_user_assignment", "get_tier" >>)
       ELSE Found(None, << "query_user_assignment" >>)

\* role_assignments.extend(...) for each role of the user, in order
RECURSIVE role_assignments_of(_, _)
role_assignments_of(qs, roles) ==
    IF roles = << >> THEN << >>
    ELSE query_role_assignments(qs, Head(roles))
         \o role_assignments_of(qs, Tail(roles))

\* a sort by ascending priority
sort_ascending(assignments) ==
    LET d == sort_by_priority(assignments)
    IN [i \in 1..Len(d) |-> d[Len(d) + 1 - i]]

\* the order in which the JWT-role step tries the assignments
role_order(role_assignments) == sort_by_priority(role_assignments)

\* 3. JWT role assignments
jwt_role_step(qs, user) ==
    IF user.roles = << >> THEN Found(None, << >>)
    ELSE LET role_assignments == role_assignments_of(qs, user.roles)
             queries == [i \in 1..Len(user.roles) |->
                            "query_role_assignments"]
             tried == first_usable(qs, user,
                          SelectSeq(role_order(role_assignments), IsEnabled),
                          "jwt_role")
         IN Found(tried.resolved, queries \o tried.calls)

\* 4. email domain assignments; the result carries the domain cache too
email_domain_step(qs, user, dcache, t, ttl) ==
    IF user.email # << >> /\ Contains(user.email, "@")
    THEN LET cached == get_cached_domain_assignments(qs, dcache, t, ttl)
             user_domain == split(user.email, "@")[2]
             Matching(a) ==
                 /\ a.enabled
                 /\ matches_email_domain(user_domain, a.email_domain).value
             tried == first_usable(qs, user,
                          SelectSeq(sort_by_priority(cached.assignments),
                                    Matching),
                          "email_domain")
         IN [resolved |-> tried.resolved,
             calls |-> cached.calls \o tried.calls,
             dcache |-> cached.dcache]
    ELSE [resolved |-> None, calls |-> << >>, dcache |-> dcache]

\* which of the default assignments the store returned is taken
pick_default(default_assignments) == default_assignments[1]

\* 5. default tier
default_tier_step(qs, user) ==
    LET default_assignments == list_assignments_by_type(qs, "default_tier")
    IN IF default_assignments # << >>
       THEN LET default_assignment == pick_default(default_assignments)
            IN Found(IF tier_usable(qs, default_assignment.tier_id)
                     THEN Some(ResolvedQuota(user,
                                   get_tier(qs, default_assignment.tier_id)[1],
                                   << "default_tier" >>,
                                   Some(default_assignment), None))
                     ELSE None,
                     << "list_assignments_by_type(default_tier)", "get_tier" >>)
       ELSE Found(None, << "list_assignments_by_type(default_tier)" >>)

\* the chain with email_domain tried before jwt_role
resolve_domain_first(qs, user, dcache, t, ttl) ==
    LET s1 == override_step(qs, user)
        s2 == direct_user_step(qs, user)
        s3 == jwt_role_step(qs, user)
        s4 == email_domain_step(qs, user, dcache, t, ttl)
        s5 == default_tier_step(qs, user)
        Out(resolved, calls, dc) ==
            [resolved |-> resolved, calls |-> calls, dcache |-> dc]
    IN IF s1.resolved # None THEN Out(s1.resolved, s1.calls, dcache)
       ELSE IF s2.resolved # None
       THEN Out(s2.resolved, s1.calls \o s2.calls, dcache)
       ELSE IF s4.resolved # None
       THEN Out(s4.resolved, s1.calls \o s2.calls \o s4.calls, s4.dcache)
       ELSE IF s3.resolved # None
       THEN Out(s3.resolved, s1.calls \o s2.calls \o s4.calls \o s3.calls,
                s4.dcache)
       ELSE Out(s5.resolved,
                s1.calls \o s2.calls \o s4.calls \o s3.calls \o s5.calls,
                s4.dcache)

\* _resolve_from_db at time t
resolve_from_db(qs, user, dcache, t, ttl) ==
    LET s1 == override_step(qs, user)
        s2 == direct_user_step(qs, user)
        s3 == jwt_role_step(qs, user)
        s4 == email_domain_step(qs, user, dcache, t, ttl)
        s5 == default_tier_step(qs, user)
        Out(resolved, calls, dc) ==
            [resolved |-> resolved, calls |-> calls, dcache |-> dc]
    IN IF s1.resolved # None THEN Out(s1.resolved, s1.calls, dcache)
       ELSE IF s2.resolved # None
       THEN Out(s2.resolved, s1.calls \o s2.calls, dcache)
       ELSE IF s3.resolved # None
       THEN Out(s3.resolved, s1.calls \o s2.calls \o s3.calls, dcache)
       ELSE IF s4.resolved # None
       THEN Out(s4.resolved, s1.calls \o s2.calls \o s3.calls \o s4.calls,
                s4.dcache)
       ELSE Out(s5.resolved,
                s1.calls \o s2.calls \o s3.calls \o s4.calls \o s5.calls,
                s4.dcache)

(***************************************************************************)
(* resolve_user_quota(user) at the time `now`.                             *)
(***************************************************************************)
EmptyCache == [k \in {} |-> None]

\* a cache whose entries never expire
cache_never_expires(cached_at, t, ttl) == TRUE

\* whether an entry cached at cached_at is still served at time t
cache_fresh(cached_at, t, ttl) == t - cached_at < ttl

\* a cache that keeps no None
cache_put_unless_none(c, cache_key, resolved, t) ==
    IF resolved = None THEN c
    ELSE [k \in DOMAIN c \cup {cache_key} |->
            IF k = cache_key THEN [resolved |-> resolved, cached_at |-> t]
            ELSE c[k]]

\* self._cache[cache_key] = (resolved, datetime.utcnow())
cache_put(c, cache_key, resolved, t) ==
    [k \in DOMAIN c \cup {cache_key} |->
        IF k = cache_key THEN [resolved |-> resolved, cached_at |-> t]
        ELSE c[k]]

\* what a resolve_user_quota call did
Resolution(user, hit, found, resolved, raised, calls) ==
    [op |-> "resolve", arg |-> user.user_id, user |-> user, hit |-> hit,
     found |-> found, resolved |-> resolved, raised |-> raised,
     calls |-> calls, removed |-> 0]

Resolve(user) ==
    LET cache_key == get_cache_key(user)
        found == IF cache_key \in DOMAIN cache THEN Some(cache[cache_key])
                 ELSE None
    IN /\ IF /\ cache_key \in DOMAIN cache
             /\ cache_fresh(cache[cache_key].cached_at, now, cache_ttl)
          THEN /\ lastResolve' = Resolution(user, TRUE, found,
                                     cache[cache_key].resolved, FALSE, << >>)
               /\ UNCHANGED << cache, domain_assignments_cache >>
          ELSE \E r \in {resolve_from_db(quota_store, user,
                             domain_assignments_cache, now, cache_ttl)} :
               /\ cache' = cache_put(cache, cache_key, r.resolved, now)
               /\ domain_assignments_cache' = r.dcache
               /\ lastResolve' = Resolution(user, FALSE, found, r.resolved,
                                            FALSE, r.calls)
       /\ UNCHANGED << quota_store, cache_ttl, now >>

\* a failed resolution that caches None
cache_none_on_error(c, cache_key, t) == cache_put(c, cache_key, None, t)

\* the cache after a repository call raised: the exception leaves
\* _resolve_from_db and resolve_user_quota, line 56 is not reached
cache_on_error(c, cache_key, t) == c

\* resolve_user_quota(user) on a cache miss, with the k-th repository call
\* raising; the domain cache is set if the list of the domain assignments
\* was read before it
ResolveFails(user) ==
    LET cache_key == get_cache_key(user)
        found == IF cache_key \in DOMAIN cache THEN Some(cache[cache_key])
                 ELSE None
    IN /\ ~ (/\ cache_key \in DOMAIN cache
             /\ cache_fresh(cache[cache_key].cached_at, now, cache_ttl))
       /\ \E r \in {resolve_from_db(quota_store, user,
                        domain_assignments_cache, now, cache_ttl)} :
          \E k \in 1..Len(r.calls) :
             /\ cache' = cache_on_error(cache, cache_key, now)
             /\ domain_assignments_cache' =
                   IF \E i \in 1..(k - 1) :
                         r.calls[i] = "list_assignments_by_type(email_domain)"
                   THEN r.dcache ELSE domain_assignments_cache
             /\ lastResolve' = Resolution(user, FALSE, found, None, TRUE,
                                          SubSeq(r.calls, 1, k))
       /\ UNCHANGED << quota_store, cache_ttl, now >>

\* a falsy user_id: None or ""
NoUser == ""

\* an invalidate_cache that removes one entry of the user only
invalidate_user_only_first(c, user_id) ==
    LET mine == {k \in DOMAIN c : k[1] = user_id}
        kept == IF mine = {} THEN DOMAIN c
                ELSE DOMAIN c \ {CHOOSE k \in mine : TRUE}
    IN [k \in kept |-> c[k]]

\* invalidate_cache(user_id) for a user: the keys are f"{user_id}:{hash}",
\* here the pair of the two, so the keys that start with f"{user_id}:" are
\* those whose first component is user_id (ids hold no ":")
invalidate_user(c, user_id) ==
    [k \in {key \in DOMAIN c : key[1] # user_id} |-> c[k]]

Invalidate(user_id) ==
    /\ IF user_id # NoUser
       THEN /\ cache' = invalidate_user(cache, user_id)
            /\ UNCHANGED domain_assignments_cache
       ELSE /\ cache' = EmptyCache
            /\ domain_assignments_cache' = None
    /\ lastResolve' = [lastResolve EXCEPT
                          !.op = "invalidate", !.arg = user_id,
                          !.removed = Cardinality(DOMAIN cache)
                                      - Cardinality(DOMAIN cache')]
    /\ UNCHANGED << quota_store, cache_ttl, now >>

\* time passes
Tick ==
    /\ now < MaxNow
    /\ now' = now + 1
    /\ UNCHANGED << quota_store, cache_ttl, cache, domain_assignments_cache,
                    lastResolve >>

(***************************************************************************)
(* The quota-stores and the users the resolver is run on.                  *)
(***************************************************************************)
SeqsUpTo(S, n) == UNION {[1..k -> S] : k \in 0..n}

QuotaStore(override, direct, r1, r2, domains, defaults) ==
    [override |-> [u \in UserIds |-> IF u = "u1" THEN override ELSE None],
     user_assignment |-> [u \in UserIds |-> IF u = "u1" THEN direct ELSE None],
     role_assignments |-> [r \in Roles |-> IF r = "r1" THEN r1 ELSE r2],
     domain_assignments |-> domains,
     default_assignments |-> defaults,
     tiers |-> Tiers]

\* the priorities of the four kinds of assignment, as documented and
\* inverted
PriorityProfiles ==
    { [direct_user |-> 300, jwt_role |-> 200, email_domain |-> 150,
       default_tier |-> 100],
      [direct_user |-> 100, jwt_role |-> 150, email_domain |-> 200,
       default_tier |-> 300] }

\* at most one rule of each kind: absent, granting, or not granting
ChainStores ==
    { QuotaStore(override, user_assignment, r1, << >>, domain_assignments,
                 default_assignments) :
        override \in {None, Some([override_type |-> "unlimited"]),
                      Some([override_type |-> "custom_limit"])},
        user_assignment \in
          {None} \cup
          { Some(Assignment("direct_user", t, p.direct_user, e, "", NoPattern)) :
              t \in {"tA", "tGone"}, e \in BOOLEAN, p \in PriorityProfiles },
        r1 \in
          {<< >>} \cup
          { << Assignment("jwt_role", t, p.jwt_role, TRUE, "r1", NoPattern) >> :
              t \in {"tB", "tOff"}, p \in PriorityProfiles },
        domain_assignments \in
          {<< >>} \cup
          { << Assignment("email_domain", "tA", p.email_domain, TRUE, "", d) >> :
              d \in {University, OtherEdu}, p \in PriorityProfiles },
        default_assignments \in
          {<< >>} \cup
          { << Assignment("default_tier", t, p.default_tier, TRUE, "",
                          NoPattern) >> :
              t \in {"tB", "tOff"}, p \in {[default_tier |-> 100]} } }

RoleAssignments(role, tiers) ==
    { Assignment("jwt_role", t, p, e, role, NoPattern) :
        t \in tiers, p \in {100, 150, 200}, e \in BOOLEAN }

\* role assignments only, several for one role
RoleStores ==
    { QuotaStore(None, None, r1, r2, << >>, << >>) :
        r1 \in SeqsUpTo(RoleAssignments("r1", {"tA", "tOff"}), MaxAssignments),
        r2 \in SeqsUpTo(RoleAssignments("r2", {"tB", "tOff"}), 1) }

\* default assignments only, in any order
DefaultStores ==
    { QuotaStore(None, None, << >>, << >>, << >>, default_assignments) :
        default_assignments \in
          SeqsUpTo({ Assignment("default_tier", t, p, e, "", NoPattern) :
                       t \in {"tA", "tB", "tOff"}, p \in {50, 100},
                       e \in BOOLEAN },
                   MaxAssignments) }

NoEmail == << >>

User(user_id, roles, email) ==
    [user_id |-> user_id, roles |-> roles, email |-> email]

Users ==
    { User("u1", roles, email) :
        roles \in {<< >>, << "r1" >>, << "r2" >>, << "r1", "r2" >>,
                   << "r2", "r1" >>},
        email \in {NoEmail, << "bob" >>, << "bob", "@" >> \o University} }

\* QuotaResolver(repository, cache_ttl_seconds)
InitQuota(stores) ==
    /\ quota_store \in stores
    /\ cache_ttl = SmallTtl
    /\ cache = EmptyCache
    /\ domain_assignments_cache = None
    /\ now = 0
    /\ lastResolve = [op |-> "init", arg |-> NoUser,
                      user |-> User("u1", << >>, NoEmail),
                      hit |-> FALSE, found |-> None, resolved |-> None,
                      raised |-> FALSE, calls |-> << >>, removed |-> 0]

(***************************************************************************)
(* SpecChain: one resolve_user_quota on a fresh resolver, for each store   *)
(* and each user.                                                          *)
(***************************************************************************)
InitChain ==
    /\ InitWith({DefaultBatchSize})
    /\ conversations_table = FALSE
    /\ NoStream
    /\ InitQuota(ChainStores \cup RoleStores \cup DefaultStores)
    /\ NoRest

NextChain ==
    \E user \in Users :
       /\ cache = EmptyCache
       /\ Resolve(user)
       /\ UNCHANGED << sessionVars, streamVars, restVars >>

SpecChain == InitChain /\ [][NextChain]_vars

(***************************************************************************)
(* SpecQuota: resolutions of two users over time, with the cache, on a     *)
(* store an administrator changes.                                         *)
(***************************************************************************)
CacheStores ==
    { QuotaStore(None, None, r1, << >>, << >>, default_assignments) :
        r1 \in {<< >>,
                << Assignment("jwt_role", "tA", 200, TRUE, "r1", NoPattern) >>},
        default_assignments \in
          {<< >>,
           << Assignment("default_tier", "tB", 100, TRUE, "", NoPattern) >>} }

CacheUsers ==
    { User("u1", << >>, NoEmail), User("u1", << "r1" >>, NoEmail) }

\* the admin service writes to the quota-store
AdminChange ==
    /\ quota_store' \in CacheStores \ {quota_store}
    /\ UNCHANGED << cache_ttl, cache, domain_assignments_cache, now,
                    lastResolve >>

InitCache ==
    /\ InitWith({DefaultBatchSize})
    /\ conversations_table = FALSE
    /\ NoStream
    /\ InitQuota(CacheStores)
    /\ NoRest

NextQuota ==
    \/ \E user \in CacheUsers :
          Resolve(user) /\ UNCHANGED << sessionVars, streamVars, restVars >>
    \/ \E user \in CacheUsers :
          ResolveFails(user) /\ UNCHANGED << sessionVars, streamVars, restVars >>
    \/ \E user_id \in UserIds \cup {NoUser} :
          Invalidate(user_id) /\ UNCHANGED << sessionVars, streamVars, restVars >>
    \/ Tick /\ UNCHANGED << sessionVars, streamVars, restVars >>
    \/ AdminChange /\ UNCHANGED << sessionVars, streamVars, restVars >>

SpecQuota == InitCache /\ [][NextQuota]_vars

(***************************************************************************)
(* SpecMatch: one call of the domain matcher for each domain and pattern,  *)
(* and resolutions against stores whose only rule is an email-domain      *)
(* assignment.                                                             *)
(***************************************************************************)
MaxElements == 2

MatchDomains ==
    {University, CsUniversity, EngUniversity, OtherEdu,
     << "a", "." >> \o CsUniversity, << "myuniversity", ".", "edu" >>}

Wildcard(base_domain) == << "*", "." >> \o base_domain
Regex(regex_pattern) == << "regex:" >> \o regex_pattern

\* what a pattern, or an element of a list, can be
PatternElements ==
    {University, OtherEdu, Wildcard(University), Wildcard(OtherEdu),
     Regex(<< "cs_or_eng" >>), Regex(<< "unanchored" >>),
     Regex(<< "invalid" >>), << >>}

\* sep.join(elements)
RECURSIVE Join(_, _)
Join(elements, sep) ==
    IF elements = << >> THEN << >>
    ELSE IF Len(elements) = 1 THEN elements[1]
    ELSE elements[1] \o sep \o Join(Tail(elements), sep)

Separators == {<< "," >>, << ",", " " >>}

\* the elements of the patterns of the model
ElementLists == SeqsUpTo(PatternElements, MaxElements)

Patterns ==
    { Join(elements, sep) : elements \in ElementLists, sep \in Separators }

\* self._matches_email_domain(user_domain, pattern)
Match(user_domain, pattern) ==
    /\ lastMatch' = Some([user_domain |-> user_domain, pattern |-> pattern,
                          outcome |-> matches_email_domain(user_domain,
                                                           pattern)])
    /\ UNCHANGED << sessionVars, streamVars, quotaVars, raceVars, stateVars,
                    agentVars, staleVars, envVars, localVars >>

\* one email-domain assignment, of any pattern
MatchStores ==
    { QuotaStore(None, None, << >>, << >>,
                 << Assignment("email_domain", "tA", 150, TRUE, "", pattern) >>,
                 << >>) :
        pattern \in {NoPattern, Regex(<< "invalid" >>), University,
                     Join(<< Regex(<< "invalid" >>), University >>, << "," >>)} }

MatchUsers ==
    { User("u1", << >>, << "bob", "@" >> \o user_domain) :
        user_domain \in {University, CsUniversity} }

InitMatch ==
    /\ InitWith({DefaultBatchSize})
    /\ conversations_table = FALSE
    /\ NoStream
    /\ InitQuota(MatchStores)
    /\ lastMatch = None
    /\ NoTasks
    /\ NoStateStore
    /\ NoAgentCache
    /\ NoLate

NextMatch ==
    \/ \E user_domain \in MatchDomains, pattern \in Patterns :
          lastMatch = None /\ Match(user_domain, pattern)
    \/ \E user \in MatchUsers :
          /\ cache = EmptyCache
          /\ Resolve(user)
          /\ UNCHANGED << sessionVars, streamVars, restVars >>

SpecMatch == InitMatch /\ [][NextMatch]_vars

(***************************************************************************)
(* SpecRace: two resolve_user_quota calls of one user on one resolver and  *)
(* an unchanged store.  A call runs without interruption from one await    *)
(* of a repository call to the next, where the other call may run.         *)
(***************************************************************************)
TaskIds == {"a", "b"}

IdleTask ==
    [pc |-> "idle", user |-> User("u1", << >>, NoEmail), made |-> 0,
     dview |-> None, hit |-> FALSE, result |-> None, invalidated |-> FALSE]

\* the repository calls of the override, direct and role steps, after which
\* _resolve_from_db reaches _get_cached_domain_assignments
calls_before_domain_step(qs, user) ==
    Len(override_step(qs, user).calls) + Len(direct_user_step(qs, user).calls)
      + Len(jwt_role_step(qs, user).calls)

reaches_domain_step(qs, user) ==
    /\ override_step(qs, user).resolved = None
    /\ direct_user_step(qs, user).resolved = None
    /\ jwt_role_step(qs, user).resolved = None
    /\ user.email # << >> /\ Contains(user.email, "@")

\* what _get_cached_domain_assignments finds when the call reaches it
domain_view(dcache, t, ttl) ==
    IF dcache # None /\ t - dcache[1].cached_at < ttl
    THEN Some([cached |-> TRUE, assignments |-> dcache[1].assignments])
    ELSE Some([cached |-> FALSE, assignments |-> << >>])

\* the domain cache as the call took it
view_as_cache(dview, t) ==
    IF dview # None /\ dview[1].cached
    THEN Some([assignments |-> dview[1].assignments, cached_at |-> t])
    ELSE None

\* _resolve_from_db as the call runs it: its repository calls and its result
plan_of(qs, task, t, ttl) ==
    resolve_from_db(qs, task.user, view_as_cache(task.dview, t), t, ttl)

\* a resolve_user_quota that reserves its cache entry before it resolves
cache_reserve_at_miss(c, cache_key, t) == cache_put(c, cache_key, None, t)

\* the cache when resolve_user_quota finds no usable entry: untouched
cache_at_miss(c, cache_key, t) == c

\* resolve_user_quota up to its first await
BeginResolve(id, user) ==
    LET cache_key == get_cache_key(user)
    IN /\ tasks[id].pc = "idle"
       /\ \A other \in TaskIds :
             tasks[other].pc # "idle" => tasks[other].user = user
       /\ IF /\ cache_key \in DOMAIN cache
             /\ cache_fresh(cache[cache_key].cached_at, now, cache_ttl)
          THEN /\ tasks' = [tasks EXCEPT ![id] =
                              [IdleTask EXCEPT !.pc = "done", !.user = user,
                                  !.hit = TRUE,
                                  !.result = cache[cache_key].resolved]]
               /\ UNCHANGED cache
          ELSE /\ tasks' = [tasks EXCEPT ![id] =
                              [IdleTask EXCEPT !.pc = "awaiting",
                                               !.user = user]]
               /\ cache' = cache_at_miss(cache, cache_key, now)
       /\ UNCHANGED << quota_store, cache_ttl, domain_assignments_cache, now,
                       lastResolve >>

\* the repository call the task awaits returns, and the task runs to its
\* next await or to the end of resolve_user_quota
Lookup(id) ==
    LET task == tasks[id]
        k == task.made + 1
        call == plan_of(quota_store, task, now, cache_ttl).calls[k]
        is_list == call = "list_assignments_by_type(email_domain)"
        dcache == IF is_list
                  THEN Some([assignments |->
                               list_assignments_by_type(quota_store,
                                                        "email_domain"),
                             cached_at |-> now])
                  ELSE domain_assignments_cache
        dview == IF /\ task.dview = None
                    /\ reaches_domain_step(quota_store, task.user)
                    /\ k = calls_before_domain_step(quota_store, task.user)
                 THEN domain_view(dcache, now, cache_ttl)
                 ELSE task.dview
        after == [task EXCEPT !.made = k, !.dview = dview]
        plan == plan_of(quota_store, after, now, cache_ttl)
    IN /\ task.pc = "awaiting"
       /\ domain_assignments_cache' = dcache
       /\ IF k = Len(plan.calls)
          THEN /\ tasks' = [tasks EXCEPT ![id] =
                              [after EXCEPT !.pc = "done",
                                            !.result = plan.resolved]]
               /\ cache' = cache_put(cache, get_cache_key(task.user),
                                     plan.resolved, now)
          ELSE /\ tasks' = [tasks EXCEPT ![id] = after]
               /\ UNCHANGED cache
       /\ UNCHANGED << quota_store, cache_ttl, now, lastResolve >>

\* the caller has the result; the task may call again
Return(id) ==
    /\ tasks[id].pc = "done"
    /\ tasks' = [tasks EXCEPT ![id] = IdleTask]
    /\ UNCHANGED quotaVars

MaxRaceNow == 3

TickRace == now < MaxRaceNow /\ Tick /\ UNCHANGED tasks

RaceStores ==
    { QuotaStore(None, None, r1, << >>, domain_assignments,
                 default_assignments) :
        r1 \in {<< >>,
                << Assignment("jwt_role", "tA", 200, TRUE, "r1", NoPattern) >>,
                << Assignment("jwt_role", "tOff", 200, TRUE, "r1",
                              NoPattern) >>},
        domain_assignments \in
          {<< >>,
           << Assignment("email_domain", "tB", 150, TRUE, "",
                         Wildcard(University)) >>},
        default_assignments \in
          {<< Assignment("default_tier", "tA", 100, TRUE, "", NoPattern) >>} }

RaceUsers ==
    { User("u1", << >>, NoEmail),
      User("u1", << "r1" >>, << "bob", "@" >> \o CsUniversity) }

InitRace ==
    /\ InitWith({DefaultBatchSize})
    /\ conversations_table = FALSE
    /\ NoStream
    /\ InitQuota(RaceStores)
    /\ NoMatch
    /\ NoStateStore
    /\ NoAgentCache
    /\ NoLate
    /\ tasks = [id \in TaskIds |-> IdleTask]

NextRace ==
    \/ \E id \in TaskIds, user \in RaceUsers :
          /\ BeginResolve(id, user)
          /\ UNCHANGED << sessionVars, streamVars, matcherVars, stateVars, agentVars, staleVars, envVars, localVars >>
    \/ \E id \in TaskIds :
          Lookup(id) /\ UNCHANGED << sessionVars, streamVars, matcherVars, stateVars, agentVars, staleVars, envVars, localVars >>
    \/ \E id \in TaskIds :
          Return(id) /\ UNCHANGED << sessionVars, streamVars, matcherVars, stateVars, agentVars, staleVars, envVars, localVars >>
    \/ TickRace /\ UNCHANGED << sessionVars, streamVars, matcherVars, stateVars, agentVars, staleVars, envVars, localVars >>

SpecRace == InitRace /\ [][NextRace]_vars

(***************************************************************************)
(* SpecInval: invalidate_cache runs between the awaits of the              *)
(* resolve_user_quota calls.                                               *)
(***************************************************************************)
\* whether invalidate_cache(user_id) is for the user of the task: for all
\* users when user_id is falsy
invalidates(user_id, task) == user_id = NoUser \/ user_id = task.user.user_id

\* invalidate_cache(user_id) while calls are suspended: it touches the two
\* caches only; a call that has read from the store before it is marked
InvalidateRace(user_id) ==
    /\ Invalidate(user_id)
    /\ tasks' = [id \in TaskIds |->
                   IF /\ tasks[id].pc = "awaiting"
                      /\ tasks[id].made >= 1
                      /\ invalidates(user_id, tasks[id])
                   THEN [tasks[id] EXCEPT !.invalidated = TRUE]
                   ELSE tasks[id]]

InvalStores == {qs \in RaceStores : qs.role_assignments["r1"] = << >>}

InitInval ==
    /\ InitWith({DefaultBatchSize})
    /\ conversations_table = FALSE
    /\ NoStream
    /\ InitQuota(InvalStores)
    /\ NoMatch
    /\ NoStateStore
    /\ NoAgentCache
    /\ NoLate
    /\ tasks = [id \in TaskIds |-> IdleTask]

RaceRest == << sessionVars, streamVars, matcherVars, stateVars, agentVars, staleVars, envVars, localVars >>

NextInval ==
    \/ \E id \in TaskIds, user \in RaceUsers :
          BeginResolve(id, user) /\ UNCHANGED RaceRest
    \/ \E id \in TaskIds : Lookup(id) /\ UNCHANGED RaceRest
    \/ \E id \in TaskIds : Return(id) /\ UNCHANGED RaceRest
    \/ \E user_id \in {"u1", NoUser} :
          InvalidateRace(user_id) /\ UNCHANGED RaceRest

SpecInval == InitInval /\ [][NextInval]_vars

(***************************************************************************)
(* SpecStale: resolutions over time on a store whose email_domain          *)
(* assignments an administrator changes, with invalidate_cache.            *)
(***************************************************************************)
\* cache_ttl_seconds, scaled: long enough for an entry to be put from a
\* domain cache that is itself not fresh any more when the entry is served
LongTtl == 3

MaxStaleNow == 4

StaleStores == {qs \in RaceStores : qs.role_assignments["r1"] = << >>}

StaleUsers ==
    { User("u1", << >>, << "bob", "@" >> \o CsUniversity),
      User("u1", << "r1" >>, << "bob", "@" >> \o CsUniversity) }

\* the admin service writes the email_domain assignments
StaleChange ==
    /\ quota_store' \in StaleStores \ {quota_store}
    /\ changed_at' = now
    /\ lastResolve' = [lastResolve EXCEPT !.op = "change"]
    /\ UNCHANGED << cache_ttl, cache, domain_assignments_cache, now >>

StaleTick ==
    /\ now < MaxStaleNow
    /\ now' = now + 1
    /\ UNCHANGED << quota_store, cache_ttl, cache, domain_assignments_cache, lastResolve >>

InitStale ==
    /\ InitWith({DefaultBatchSize})
    /\ conversations_table = FALSE
    /\ NoStream
    /\ quota_store \in StaleStores
    /\ cache_ttl = LongTtl
    /\ cache = EmptyCache
    /\ domain_assignments_cache = None
    /\ now = 0
    /\ lastResolve = [op |-> "init", arg |-> NoUser,
                      user |-> User("u1", << >>, NoEmail),
                      hit |-> FALSE, found |-> None, resolved |-> None,
                      raised |-> FALSE, calls |-> << >>, removed |-> 0]
    /\ NoMatch /\ NoTasks /\ NoStateStore /\ NoAgentCache
    /\ changed_at = -1
    /\ NoEnv /\ NoLocal

StaleRest == << sessionVars, streamVars, matcherVars, raceVars, stateVars, agentVars, envVars, localVars >>

NextStale ==
    \/ \E user \in StaleUsers :
          Resolve(user) /\ UNCHANGED << StaleRest, changed_at >>
    \/ \E user_id \in {"u1", NoUser} :
          Invalidate(user_id) /\ UNCHANGED << StaleRest, changed_at >>
    \/ StaleTick /\ UNCHANGED << StaleRest, changed_at >>
    \/ StaleChange /\ UNCHANGED StaleRest

SpecStale == InitStale /\ [][NextStale]_vars

(***************************************************************************)
(* The state stores of apis/shared/auth/state_store.py.  A token is kept   *)
(* with its expiry and its OIDCStateData.  The tokens stored are those    *)
(* generate_state draws, each a new one: the n-th token is the number n.  *)
(* get_and_delete_state is called with any token, stored or not.          *)
(***************************************************************************)
MaxStored == 2
MaxTime == 2

StateTokens == 1..MaxStored
TtlSeconds == {1}

\* state = secrets.token_urlsafe(32): a token that was not drawn before
generate_state(n) == n + 1
CallerIds == {"a", "b"}

\* data arguments of store_state: None, an OIDCStateData without fields,
\* one with all fields
NoData == "None"
EmptyData == "OIDCStateData()"
StateData == {NoData, "OIDCStateData(r,v,n)"}

\* the attributes store_state puts in the DynamoDB item: those of a data
\* that is not None and that are not empty
item_attributes(data) == IF data \in {NoData, EmptyData} THEN "{}" ELSE data

\* OIDCStateData(redirect_uri=item.get(...), ...)
data_of_item(attributes) ==
    IF attributes = "{}" THEN EmptyData ELSE attributes

Item(expires_at, data) == [expires_at |-> expires_at, data |-> data]

\* InMemoryStateStore._cleanup_expired
cleanup_expired(mem, current_time) ==
    [state \in DOMAIN mem |->
        IF mem[state] # None /\ current_time > mem[state][1].expires_at
        THEN None ELSE mem[state]]

\* a return of get_and_delete_state, with whether the call read an item
\* and whether it started after the expiry of that item
Returned(id, state, ok, data, started, item) ==
    Some([id |-> id, state |-> state, ok |-> ok, data |-> data,
          read |-> item # None,
          expired |-> item # None /\ started > item[1].expires_at])

Grant(state) == [granted EXCEPT ![state] = @ + 1]

\* InMemoryStateStore.store_state
MemStoreState(data, ttl_seconds) ==
    /\ backend = "memory"
    /\ stored < MaxStored
    /\ stored' = stored + 1
    /\ items' = cleanup_expired(
                   [items EXCEPT ![generate_state(stored)] =
                       Some(Item(time + ttl_seconds, data))],
                   time)
    /\ UNCHANGED << backend, time, callers, granted, lastReturn >>

\* InMemoryStateStore.get_and_delete_state
MemGetAndDeleteState(state) ==
    LET mem == cleanup_expired(items, time)
    IN /\ backend = "memory"
       /\ IF mem[state] = None
          THEN /\ items' = mem
               /\ lastReturn' = Returned("a", state, FALSE, NoData, time, None)
               /\ UNCHANGED granted
          ELSE IF time > mem[state][1].expires_at
          THEN /\ items' = [mem EXCEPT ![state] = None]
               /\ lastReturn' = Returned("a", state, FALSE, NoData, time,
                                         mem[state])
               /\ UNCHANGED granted
          ELSE /\ items' = [mem EXCEPT ![state] = None]
               /\ lastReturn' = Returned("a", state, TRUE,
                                         mem[state][1].data, time,
                                         mem[state])
               /\ granted' = Grant(state)
       /\ UNCHANGED << backend, time, callers, stored >>

\* DynamoDBStateStore.store_state
DdbStoreState(data, ttl_seconds) ==
    /\ backend = "dynamodb"
    /\ stored < MaxStored
    /\ stored' = stored + 1
    /\ items' = [items EXCEPT ![generate_state(stored)] =
                    Some(Item(time + ttl_seconds, item_attributes(data)))]
    /\ UNCHANGED << backend, time, callers, granted, lastReturn >>

IdleCaller == [pc |-> "idle", state |-> 1, current_time |-> 0, item |-> None]

\* a conditional delete that does not fail when the item is gone
delete_unconditionally(table, state) == TRUE

\* ConditionExpression attribute_exists(PK) of delete_item
attribute_exists(table, state) == table[state] # None

\* DynamoDBStateStore.get_and_delete_state up to the answer of get_item
DdbGetItem(id, state, client_error) ==
    /\ backend = "dynamodb"
    /\ callers[id].pc = "idle"
    /\ IF client_error \/ items[state] = None
       THEN /\ lastReturn' = Returned(id, state, FALSE, NoData, time, None)
            /\ UNCHANGED callers
       ELSE /\ callers' = [callers EXCEPT ![id] =
                 [pc |-> IF /\ items[state][1].expires_at # 0
                            /\ time > items[state][1].expires_at
                         THEN "delete_expired" ELSE "delete",
                  state |-> state, current_time |-> time,
                  item |-> items[state]]]
            /\ UNCHANGED lastReturn
    /\ UNCHANGED << backend, items, time, stored, granted >>

\* the best-effort delete of an expired item, and the return
DdbDeleteExpired(id, client_error) ==
    LET c == callers[id]
    IN /\ backend = "dynamodb"
       /\ c.pc = "delete_expired"
       /\ items' = IF client_error THEN items
                   ELSE [items EXCEPT ![c.state] = None]
       /\ lastReturn' = Returned(id, c.state, FALSE, NoData, c.current_time,
                                 c.item)
       /\ callers' = [callers EXCEPT ![id] = IdleCaller]
       /\ UNCHANGED << backend, time, stored, granted >>

\* the conditional delete, and the return
DdbDelete(id, client_error) ==
    LET c == callers[id]
    IN /\ backend = "dynamodb"
       /\ c.pc = "delete"
       /\ IF client_error \/ ~ attribute_exists(items, c.state)
          THEN /\ lastReturn' = Returned(id, c.state, FALSE, NoData,
                                         c.current_time, c.item)
               /\ UNCHANGED << items, granted >>
          ELSE /\ items' = [items EXCEPT ![c.state] = None]
               /\ lastReturn' = Returned(id, c.state, TRUE,
                                         data_of_item(c.item[1].data),
                                         c.current_time, c.item)
               /\ granted' = Grant(c.state)
       /\ callers' = [callers EXCEPT ![id] = IdleCaller]
       /\ UNCHANGED << backend, time, stored >>

\* DynamoDB removes an item whose TTL attribute expiresAt has passed
DdbTtlDelete(state) ==
    /\ backend = "dynamodb"
    /\ items[state] # None
    /\ time > items[state][1].expires_at
    /\ items' = [items EXCEPT ![state] = None]
    /\ UNCHANGED << backend, time, callers, stored, granted, lastReturn >>

TickState ==
    /\ time < MaxTime
    /\ time' = time + 1
    /\ UNCHANGED << backend, items, callers, stored, granted, lastReturn >>

\* create_state_store()
InitState ==
    /\ InitWith({DefaultBatchSize})
    /\ conversations_table = FALSE
    /\ NoStream
    /\ NoQuota
    /\ NoMatch
    /\ NoTasks
    /\ NoAgentCache
    /\ NoLate
    /\ backend \in {"memory", "dynamodb"}
    /\ items = [state \in StateTokens |-> None]
    /\ time = 0
    /\ callers = [id \in CallerIds |-> IdleCaller]
    /\ stored = 0
    /\ granted = [state \in StateTokens |-> 0]
    /\ lastReturn = None

StateRest ==
    << sessionVars, streamVars, quotaVars, matcherVars, raceVars, agentVars, staleVars, envVars, localVars >>

NextState ==
    \/ \E data \in StateData, ttl \in TtlSeconds :
          MemStoreState(data, ttl) /\ UNCHANGED StateRest
    \/ \E state \in StateTokens :
          MemGetAndDeleteState(state) /\ UNCHANGED StateRest
    \/ \E data \in StateData, ttl \in TtlSeconds :
          DdbStoreState(data, ttl) /\ UNCHANGED StateRest
    \/ \E id \in CallerIds, state \in StateTokens, client_error \in BOOLEAN :
          DdbGetItem(id, state, client_error) /\ UNCHANGED StateRest
    \/ \E id \in CallerIds, client_error \in BOOLEAN :
          DdbDeleteExpired(id, client_error) /\ UNCHANGED StateRest
    \/ \E id \in CallerIds, client_error \in BOOLEAN :
          DdbDelete(id, client_error) /\ UNCHANGED StateRest
    \/ \E state \in StateTokens : DdbTtlDelete(state) /\ UNCHANGED StateRest
    \/ TickState /\ UNCHANGED StateRest

SpecState == InitState /\ [][NextState]_vars

(***************************************************************************)
(* The agent cache of apis/inference_api/chat/service.py.  A cache key    *)
(* stands for one configuration; the dict is the sequence of its keys in  *)
(* insertion order.  The order of last use is kept beside it for the      *)
(* properties; the code keeps no such order.                               *)
(***************************************************************************)
MaxCacheSize == 2

\* _CACHE_MAX_SIZE, scaled to the model
CACHE_MAX_SIZE == MaxCacheSize

CacheKeys == {"c1", "c2", "c3", "c4", "c5"}
NoKey == ""

Without(seq, key) == SelectSeq(seq, LAMBDA k : k # key)

\* oldest_key = next(iter(_agent_cache))
oldest_key(d) == Head(d)

\* get_agent
GetAgent(cache_key) ==
    IF \E i \in 1..Len(agent_cache) : agent_cache[i] = cache_key
    THEN /\ lastGet' = Some([cache_key |-> cache_key, hit |-> TRUE,
                             evicted |-> NoKey])
         /\ recency' = Without(recency, cache_key) \o << cache_key >>
         /\ UNCHANGED agent_cache
    ELSE LET evicted == IF Len(agent_cache) >= CACHE_MAX_SIZE
                        THEN oldest_key(agent_cache) ELSE NoKey
         IN /\ agent_cache' = Without(agent_cache, evicted) \o << cache_key >>
            /\ recency' = Without(recency, evicted) \o << cache_key >>
            /\ lastGet' = Some([cache_key |-> cache_key, hit |-> FALSE,
                                evicted |-> evicted])

\* clear_agent_cache
ClearAgentCache ==
    /\ agent_cache' = << >>
    /\ recency' = << >>
    /\ lastGet' = Some([cache_key |-> NoKey, hit |-> FALSE, evicted |-> NoKey])

InitAgent ==
    /\ InitWith({DefaultBatchSize})
    /\ conversations_table = FALSE
    /\ NoStream
    /\ NoQuota
    /\ NoMatch
    /\ NoTasks
    /\ NoStateStore
    /\ NoLate
    /\ agent_cache = << >>
    /\ recency = << >>
    /\ lastGet = None

AgentRest ==
    << sessionVars, streamVars, quotaVars, matcherVars, raceVars, stateVars, staleVars, envVars, localVars >>

NextAgent ==
    \/ \E cache_key \in CacheKeys : GetAgent(cache_key) /\ UNCHANGED AgentRest
    \/ ClearAgentCache /\ UNCHANGED AgentRest

SpecAgent == InitAgent /\ [][NextAgent]_vars

(***************************************************************************)
(* Properties.                                                             *)
(***************************************************************************)
\* the number of content blocks of the messages before the k-th
RECURSIVE Offset(_, _)
Offset(msgs, k) ==
    IF k <= 1 THEN 0 ELSE Offset(msgs, k - 1) + Len(msgs[k - 1].content)

\* content holds the blocks of msgs, message after message, and no other
ConcatOf(content, msgs) ==
    /\ Len(content) = Offset(msgs, Len(msgs) + 1)
    /\ \A k \in 1..Len(msgs) : \A i \in 1..Len(msgs[k].content) :
          content[Offset(msgs, k) + i] = msgs[k].content[i]

IsPrefix(s, t) == Len(s) <= Len(t) /\ \A i \in 1..Len(s) : s[i] = t[i]

\* the messages the shapes of `fed` stand for, as append_message buffers them
Fed(i) == Message(fed[i], i, i)

ToolTurn == << "U", "AT", "TR", "A" >>

\* C1: feeding [user, assistant with tool-use, tool_result, assistant
\* without tool-use] one add at a time to an empty buffer causes exactly one
\* store write, made when the final assistant message is added, and the one
\* record written holds the content blocks of all four messages in arrival
\* order.
C1_BoundaryDetection ==
    (batch_size = DefaultBatchSize /\ IsPrefix(fed, ToolTurn)) =>
        IF fed = ToolTurn
        THEN /\ creates = 1
             /\ Len(store) = 1
             /\ Len(lastCall.flushes) = 1
             /\ ConcatOf(store[1].content, [i \in 1..4 |-> Fed(i)])
        ELSE creates = 0 /\ store = << >>

\* C2: feeding [user, assistant without tool-use, user] one add at a time
\* to an empty buffer writes one record that holds the user and the
\* assistant message together, and leaves the third message as the only
\* pending one.
C2_NewUserAfterAssistant ==
    (batch_size = DefaultBatchSize /\ fed = << "U", "A", "U" >>) =>
        /\ Len(store) = 1
        /\ ConcatOf(store[1].content, << Fed(1), Fed(2) >>)
        /\ pending_messages = << Fed(3) >>

\* C3: in every reachable state the pending buffer holds at most
\* max_buffer_size messages, whatever the batch_size and whether or not
\* store writes fail.
C3_BufferBound == Len(pending_messages) <= max_buffer_size

\* C4: once cancelled is set it stays set, and every add after it, through
\* add_message or append_message, leaves the pending buffer as it was and
\* writes nothing to the store.
C4_CancelHaltsIntake ==
    [][ /\ cancelled => cancelled'
        /\ (cancelled /\ fed' # fed) =>
              /\ pending_messages' = pending_messages
              /\ store' = store
              /\ creates' = creates ]_vars

\* C5: a flush() issued after cancellation, with messages buffered, writes
\* one record holding exactly the messages buffered before the cancellation
\* and empties the buffer.
C5_FlushAfterCancel ==
    [][ (cancelled /\ lastCall'.op = "flush" /\ pending_messages # << >>) =>
           /\ pending_messages' = << >>
           /\ Len(store') = Len(store) + 1
           /\ ConcatOf(store'[Len(store')].content, atCancel) ]_vars

\* C6: flush() makes exactly one create_message call when the buffer holds
\* at least one message, and makes no store call and returns None when the
\* buffer is empty; no call adds more records to the store than it made
\* create_message calls, so the store never holds more records than there
\* were create_message calls.
C6_OneWritePerFlush ==
    [][ /\ lastCall'.op = "flush" =>
              IF pending_messages = << >>
              THEN /\ creates' = creates
                   /\ lists' = lists
                   /\ store' = store
                   /\ lastCall'.ret = None
              ELSE /\ creates' = creates + 1
                   /\ Len(store') <= Len(store) + 1
        /\ Len(store') - Len(store) <= creates' - creates
        /\ Len(store') <= creates' ]_vars

\* C6 witness: a flush of several buffered messages has written one record.
C6_Witness ==
    /\ lastCall.op = "flush"
    /\ Len(lastCall.flushes) = 1
    /\ lastCall.flushes[1].wrote
    /\ Len(lastCall.flushes[1].flushed) >= 2
    /\ creates >= 2

\* C7: the record a flush produces has the role of the first buffered
\* message and, as content, the blocks of every buffered message in order;
\* for a single buffered message it is that message unchanged.  The record
\* written to the store carries that role and content.
C7_MergeResult ==
    \A j \in 1..Len(lastCall.flushes) :
        LET f == lastCall.flushes[j]
        IN /\ f.merged.role = f.flushed[1].role
           /\ ConcatOf(f.merged.content, f.flushed)
           /\ Len(f.flushed) = 1 => f.merged = f.flushed[1]
           /\ (f.wrote /\ j = Len(lastCall.flushes)) =>
                 /\ store[Len(store)].role = f.flushed[1].role
                 /\ ConcatOf(store[Len(store)].content, f.flushed)

\* C7 witness: a flush has merged and written three messages, the first a
\* user message and the last an assistant message.
C7_Witness ==
    /\ Len(lastCall.flushes) = 1
    /\ lastCall.flushes[1].wrote
    /\ Len(lastCall.flushes[1].flushed) = 3
    /\ lastCall.flushes[1].flushed[1].role = "user"
    /\ lastCall.flushes[1].flushed[3].role = "assistant"

\* C8, as stated: the value a non-empty flush returns is the message count
\* of the store read after the write, minus 1.
C8_ZeroBased ==
    (/\ lastCall.op = "flush"
     /\ Len(lastCall.flushes) = 1
     /\ lastCall.flushes[1].wrote
     /\ lastCall.flushes[1].listed) =>
        lastCall.ret = Some(Len(store) - 1)

\* C8, amended: the value a non-empty flush returns after its write is the
\* message count of the store read after the write (the 1-based position of
\* the record just written), and None when the count cannot be read.
C8_SequenceIsCount ==
    (/\ lastCall.op = "flush"
     /\ Len(lastCall.flushes) = 1
     /\ lastCall.flushes[1].wrote) =>
        lastCall.ret = IF lastCall.flushes[1].listed
                       THEN Some(Len(store)) ELSE None

\* C8 witness: a flush returned the count of a store of several records.
C8_Witness ==
    /\ lastCall.op = "flush"
    /\ Len(lastCall.flushes) = 1
    /\ lastCall.flushes[1].wrote
    /\ lastCall.flushes[1].listed
    /\ Len(store) >= 2
    /\ lastCall.ret = Some(Len(store))

\* C9: when create_message fails during a flush, the failure is caught and
\* the pending buffer is empty when the flush ends.
C9_ClearedOnFailedWrite ==
    (/\ lastCall.op = "flush"
     /\ Len(lastCall.flushes) = 1
     /\ ~ lastCall.flushes[1].wrote) =>
        pending_messages = << >>

\* C10: no call of flush, add_message or append_message raises, whatever
\* the turn-store does during the flush.
C10_NoRaise == ~ lastCall.raised

\* C11: after every flush that wrote its record and returned a sequence
\* number, with no collaborator failing, and whose merged record carries a
\* client id, the mapping file maps that sequence number to the client id
\* of the first buffered message, and maps nothing to the id of any other
\* merged message.
C11_MappingPersisted ==
    \A j \in 1..Len(lastCall.flushes) :
        LET f == lastCall.flushes[j]
        IN (/\ faults = 0
            /\ f.wrote
            /\ f.ret # None
            /\ f.merged.message_id # NoId) =>
              /\ f.ret[1] \in DOMAIN uuid_mappings
              /\ uuid_mappings[f.ret[1]] = f.flushed[1].message_id
              /\ \A k \in 2..Len(f.flushed) : \A s \in DOMAIN uuid_mappings :
                    uuid_mappings[s] # f.flushed[k].message_id

\* C12: a flush() whose write and read-back succeeded and whose storing of
\* the mapping failed does not raise, leaves the record written, empties the
\* buffer and returns the sequence number.
C12_MappingBestEffort ==
    [][ (/\ lastCall'.op = "flush"
         /\ Len(lastCall'.flushes) = 1
         /\ lastCall'.flushes[1].wrote
         /\ lastCall'.flushes[1].listed
         /\ faults' = faults + 1) =>
           /\ ~ lastCall'.raised
           /\ pending_messages' = << >>
           /\ Len(store') = Len(store) + 1
           /\ lastCall'.ret = Some(Len(store')) ]_vars

\* C12 witness: a flush in local mode wrote a record with a client id, read
\* its sequence number back and returned it, and the mapping file has no
\* entry for it: storing the mapping failed.
C12_Witness ==
    /\ lastCall.op = "flush"
    /\ Len(lastCall.flushes) = 1
    /\ lastCall.flushes[1].wrote
    /\ lastCall.flushes[1].listed
    /\ lastCall.flushes[1].merged.message_id # NoId
    /\ ~ conversations_table
    /\ lastCall.ret # None
    /\ lastCall.ret[1] \notin DOMAIN uuid_mappings
    /\ pending_messages = << >>
    /\ ~ lastCall.raised

\* block a of the fed messages comes before block b
BlockBefore(a, b) == a.msg < b.msg \/ (a.msg = b.msg /\ a.idx < b.idx)

\* the blocks of the records of the store, in store order
RECURSIVE BlocksOf(_)
BlocksOf(records) ==
    IF records = << >> THEN << >>
    ELSE Head(records).content \o BlocksOf(Tail(records))

\* C13: every block in the store is a block of a fed message, and the
\* blocks read in store order (record after record, block after block) are
\* in the order their messages were added and, within a message, in the
\* order of its content: each block comes before the one stored next.
C13_ArrivalOrder ==
    LET blocks == BlocksOf(store)
    IN /\ \A p \in 1..Len(blocks) :
             /\ blocks[p].msg \in 1..Len(fed)
             /\ blocks[p].idx \in 1..Len(Fed(blocks[p].msg).content)
             /\ Fed(blocks[p].msg).content[blocks[p].idx] = blocks[p]
       /\ \A p \in 1..(Len(blocks) - 1) :
             BlockBefore(blocks[p], blocks[p + 1])

\* C13 witness: the store holds two records, the first merged from several
\* messages.
C13_Witness ==
    /\ Len(store) >= 2
    /\ Len(store[1].content) >= 3
    /\ store[1].content[1].msg # store[1].content[3].msg

\* the flush() calls among the entries of a trace
RECURSIVE FlushCalls(_)
FlushCalls(tr) ==
    IF tr = << >> THEN << >>
    ELSE IF Head(tr).ev \in {"flush_session", "emergency_flush"}
         THEN << Head(tr) >> \o FlushCalls(Tail(tr))
         ELSE FlushCalls(Tail(tr))

Finished == pc \in {"done", "raised"}

\* C14: when stream_response has finished, by normal completion of the
\* agent stream or by an exception escaping it, on a session manager that
\* exposes flush, flush() has been called and the buffer holds no message.
C14_FlushAtStreamEnd ==
    (Finished /\ exposes_flush) =>
        /\ FlushCalls(trace) # << >>
        /\ pending_messages = << >>

\* C15: when stream_response has finished on a session manager that exposes
\* flush, flush() has been called exactly once by the coordinator, on the
\* normal path and on the error path alike.
C15_SingleFinalFlush ==
    (Finished /\ exposes_flush) => Len(FlushCalls(trace)) = 1

\* C16: once an exception has reached the except clause of stream_response,
\* the run ends by returning, not by raising; what it did last is the
\* emergency flush (on a session manager that exposes flush) followed by
\* one error event, the last event of the client, whether or not the
\* emergency flush failed.
C16_ErrorSurfaced ==
    [][ (pc = "handler" /\ pc' # "handler") =>
           /\ pc' = "done"
           /\ Len(trace') >= 1
           /\ trace'[Len(trace')].ev = "error"
           /\ \A i \in 1..Len(trace) : trace[i].ev # "error"
           /\ exposes_flush =>
                 /\ Len(trace') = Len(trace) + 2
                 /\ trace'[Len(trace') - 1].ev = "emergency_flush" ]_vars

\* C16 witness: a run has ended with the error event after an emergency
\* flush that failed.
C16_Witness ==
    /\ pc = "done"
    /\ Len(trace) >= 2
    /\ trace[Len(trace)].ev = "error"
    /\ trace[Len(trace) - 1] = Entry("emergency_flush", TRUE)
    /\ lastCall.op = "flush"
    /\ lastCall.raised

\* a resolve_user_quota call has just evaluated the chain on a fresh
\* resolver
Resolved == cache # EmptyCache /\ ~ lastResolve.hit

\* the step is a resolve_user_quota call that returned
ResolveStep ==
    /\ lastResolve'.op = "resolve"
    /\ ~ lastResolve'.raised
    /\ now' = now
    /\ quota_store' = quota_store

\* the kind of rule a resolution was matched by, "none" for None
KindOf(resolved) == IF resolved = None THEN "none" ELSE resolved[1].matched_by[1]

Grants(a) == a.enabled /\ tier_usable(quota_store, a.tier_id)

Range(seq) == {seq[i] : i \in 1..Len(seq)}

OverrideMatches(user) == quota_store.override[user.user_id] # None

DirectUserMatches(user) ==
    /\ quota_store.user_assignment[user.user_id] # None
    /\ Grants(quota_store.user_assignment[user.user_id][1])

\* the assignments of the roles the user holds
RoleCandidates(user) ==
    UNION {Range(quota_store.role_assignments[r]) : r \in RoleSetOf(user.roles)}

JwtRoleMatches(user) == \E a \in RoleCandidates(user) : Grants(a)

EmailDomainMatches(user) ==
    /\ Contains(user.email, "@")
    /\ \E a \in Range(quota_store.domain_assignments) :
          /\ Grants(a)
          /\ matches_email_domain(split(user.email, "@")[2],
                                  a.email_domain).value

EnabledDefaults == {a \in Range(quota_store.default_assignments) : a.enabled}

\* C17: on a cache miss the resolution is matched by the first kind of
\* rule that matches, in the order override, direct_user, jwt_role,
\* email_domain, default_tier, whatever the priority fields of the
\* assignments are; it is matched by default_tier, or is None, only when
\* none of the four kinds before matches.
C17_PriorityChain ==
    Resolved =>
        LET user == lastResolve.user
            kind == KindOf(lastResolve.resolved)
        IN IF OverrideMatches(user) THEN kind = "override"
           ELSE IF DirectUserMatches(user) THEN kind = "direct_user"
           ELSE IF JwtRoleMatches(user) THEN kind = "jwt_role"
           ELSE IF EmailDomainMatches(user) THEN kind = "email_domain"
           ELSE /\ kind \in {"default_tier", "none"}
                /\ kind = "default_tier" => \E a \in EnabledDefaults : Grants(a)
                /\ (\A a \in EnabledDefaults : ~ Grants(a)) => kind = "none"

\* C17 witness: a user matched both by a jwt_role assignment and by an
\* email_domain assignment of higher priority was resolved by jwt_role,
\* with a default tier configured too.
C17_Witness ==
    /\ Resolved
    /\ ~ OverrideMatches(lastResolve.user)
    /\ ~ DirectUserMatches(lastResolve.user)
    /\ EmailDomainMatches(lastResolve.user)
    /\ KindOf(lastResolve.resolved) = "jwt_role"
    /\ \E d \in Range(quota_store.domain_assignments) :
          d.priority > lastResolve.resolved[1].assignment[1].priority
    /\ \E a \in EnabledDefaults : Grants(a)

\* C18: when neither an override nor a direct assignment matches, the
\* resolution is matched by jwt_role exactly when an assignment of a role
\* the user holds is enabled with a tier that exists and is enabled; the
\* assignment returned is such an assignment of the highest priority among
\* them, and matched_by names its role.
C18_JwtRoleStep ==
    (/\ Resolved
     /\ ~ OverrideMatches(lastResolve.user)
     /\ ~ DirectUserMatches(lastResolve.user)) =>
        LET granting == {a \in RoleCandidates(lastResolve.user) : Grants(a)}
            resolved == lastResolve.resolved
        IN IF granting = {} THEN KindOf(resolved) # "jwt_role"
           ELSE /\ KindOf(resolved) = "jwt_role"
                /\ resolved[1].assignment[1] \in granting
                /\ \A b \in granting :
                      b.priority <= resolved[1].assignment[1].priority
                /\ resolved[1].matched_by =
                      << "jwt_role", resolved[1].assignment[1].jwt_role >>
                /\ resolved[1].tier.tier_id = resolved[1].assignment[1].tier_id

\* C18 witness: a user holding two roles was resolved by the assignment of
\* one role after an assignment of higher priority was skipped, and an
\* assignment of the other role had a lower priority.
C18_Witness ==
    /\ Resolved
    /\ Len(lastResolve.user.roles) = 2
    /\ KindOf(lastResolve.resolved) = "jwt_role"
    /\ \E b \in RoleCandidates(lastResolve.user) :
          /\ b.priority > lastResolve.resolved[1].assignment[1].priority
          /\ ~ Grants(b)
    /\ \E c \in RoleCandidates(lastResolve.user) :
          /\ Grants(c)
          /\ c.jwt_role # lastResolve.resolved[1].assignment[1].jwt_role
          /\ c.priority < lastResolve.resolved[1].assignment[1].priority

\* C19: when no earlier rule matches and the store returns enabled default
\* assignments, in whatever order, the resolution is decided by one of the
\* highest priority among them: it is that assignment, matched by
\* default_tier, if its tier is enabled.
C19_DefaultTierStep ==
    (/\ Resolved
     /\ ~ OverrideMatches(lastResolve.user)
     /\ ~ DirectUserMatches(lastResolve.user)
     /\ ~ JwtRoleMatches(lastResolve.user)
     /\ ~ EmailDomainMatches(lastResolve.user)
     /\ EnabledDefaults # {}) =>
        \E top \in EnabledDefaults :
           /\ \A b \in EnabledDefaults : b.priority <= top.priority
           /\ tier_usable(quota_store, top.tier_id) =>
                 /\ KindOf(lastResolve.resolved) = "default_tier"
                 /\ lastResolve.resolved[1].assignment = Some(top)
                 /\ lastResolve.resolved[1].matched_by = << "default_tier" >>

\* C20: a resolve_user_quota for a key cached at t0 returns the cached
\* resolution, calls the quota-store not at all and leaves the cache as it
\* is when now - t0 < cache_ttl; when now - t0 > cache_ttl it evaluates the
\* chain against the store as it is now, returns that result and replaces
\* the entry by it, cached at now.
C20_CacheTtl ==
    [][ ResolveStep =>
          LET key == get_cache_key(lastResolve'.user)
          IN key \in DOMAIN cache =>
               /\ now - cache[key].cached_at < cache_ttl =>
                     /\ lastResolve'.hit
                     /\ lastResolve'.resolved = cache[key].resolved
                     /\ lastResolve'.calls = << >>
                     /\ cache' = cache
               /\ now - cache[key].cached_at > cache_ttl =>
                     /\ ~ lastResolve'.hit
                     /\ lastResolve'.calls # << >>
                     /\ lastResolve'.resolved =
                           resolve_from_db(quota_store, lastResolve'.user,
                               domain_assignments_cache, now,
                               cache_ttl).resolved
                     /\ cache'[key] = [resolved |-> lastResolve'.resolved,
                                       cached_at |-> now] ]_vars

\* C20 witness: a call found an entry older than cache_ttl, evaluated the
\* chain and replaced the entry by a different resolution.
C20_Witness ==
    /\ ~ lastResolve.hit
    /\ lastResolve.found # None
    /\ get_cache_key(lastResolve.user) \in DOMAIN cache
    /\ cache[get_cache_key(lastResolve.user)].cached_at
          - lastResolve.found[1].cached_at > cache_ttl
    /\ lastResolve.found[1].resolved # lastResolve.resolved
    /\ cache[get_cache_key(lastResolve.user)].resolved = lastResolve.resolved

\* C20 witness of the hit: a call found an entry one tick younger than
\* cache_ttl and returned it without a store call.
C20_HitWitness ==
    /\ lastResolve.hit
    /\ lastResolve.found # None
    /\ now - lastResolve.found[1].cached_at = cache_ttl - 1
    /\ lastResolve.calls = << >>

\* the chain evaluated now for a user
ChainNow(user) ==
    resolve_from_db(quota_store, user, domain_assignments_cache, now,
                    cache_ttl).resolved

NothingMatches(user) ==
    /\ ~ OverrideMatches(user)
    /\ ~ DirectUserMatches(user)
    /\ ~ JwtRoleMatches(user)
    /\ ~ EmailDomainMatches(user)
    /\ EnabledDefaults = {}

\* the entry of the key in the cache is younger than cache_ttl
Cached(key) == key \in DOMAIN cache /\ now - cache[key].cached_at < cache_ttl

\* C21: a resolve_user_quota that finds no usable cache entry, when no rule
\* matches and no default tier is configured, returns None and caches it;
\* a call that finds a None cached for its key less than cache_ttl ago
\* returns None without a quota-store call.
C21_NegativeCaching ==
    [][ ResolveStep =>
          LET user == lastResolve'.user
              key == get_cache_key(lastResolve'.user)
          IN /\ (~ Cached(key) /\ NothingMatches(user)) =>
                   /\ lastResolve'.resolved = None
                   /\ lastResolve'.calls # << >>
                   /\ key \in DOMAIN cache'
                   /\ cache'[key] = [resolved |-> None, cached_at |-> now]
             /\ (Cached(key) /\ cache[key].resolved = None) =>
                   /\ lastResolve'.hit
                   /\ lastResolve'.resolved = None
                   /\ lastResolve'.calls = << >> ]_vars

\* C21 witness: a call returned a cached None without a store call.
C21_Witness ==
    /\ lastResolve.op = "resolve"
    /\ lastResolve.hit
    /\ lastResolve.resolved = None
    /\ lastResolve.found = Some([resolved |-> None, cached_at |-> 0])
    /\ lastResolve.calls = << >>
    /\ now = 1

\* the call made by the step follows a call of the same user under another
\* role set
RoleChanged ==
    /\ lastResolve.op = "resolve"
    /\ ~ lastResolve.raised
    /\ lastResolve.user.user_id = lastResolve'.user.user_id
    /\ RoleSetOf(lastResolve.user.roles) # RoleSetOf(lastResolve'.user.roles)

\* C22, as stated: a resolve_user_quota that follows one of the same user
\* under another role set evaluates the rule chain against the store.
C22_RoleChangeEvaluates ==
    [][ (ResolveStep /\ RoleChanged) =>
           /\ ~ lastResolve'.hit
           /\ lastResolve'.calls # << >> ]_vars

\* C22, amended: a resolve_user_quota that follows one of the same user
\* under another role set does not return the entry of the previous role
\* set: it returns the evaluation of the chain for the new role set, or an
\* entry younger than cache_ttl that the cache holds besides the entry of
\* the previous role set.
C22_RoleChangeKeyed ==
    [][ (ResolveStep /\ RoleChanged) =>
           IF lastResolve'.hit
           THEN /\ Cardinality(DOMAIN cache) >= 2
                /\ lastResolve'.found # None
                /\ now - lastResolve'.found[1].cached_at < cache_ttl
                /\ lastResolve'.resolved = lastResolve'.found[1].resolved
           ELSE /\ lastResolve'.calls # << >>
                /\ lastResolve'.resolved = ChainNow(lastResolve'.user) ]_vars

\* C22 witness: the first call of a user under a role set found no entry
\* while the cache held the entry of another role set of the user, and
\* resolved to something else than that entry.
C22_Witness ==
    /\ lastResolve.op = "resolve"
    /\ ~ lastResolve.hit
    /\ lastResolve.found = None
    /\ Cardinality(DOMAIN cache) = 2
    /\ \E k \in DOMAIN cache :
          /\ k[1] = lastResolve.user.user_id
          /\ cache[k].resolved # lastResolve.resolved
          /\ now - cache[k].cached_at < cache_ttl

\* C23: after invalidate_cache(user_id) the cache holds no entry of that
\* user, under any role set, and a resolve_user_quota of a user of whom the
\* cache holds no entry queries the quota-store.
C23_PerUserInvalidation ==
    [][ /\ (lastResolve'.op = "invalidate" /\ lastResolve'.arg # NoUser) =>
              \A k \in DOMAIN cache' : k[1] # lastResolve'.arg
        /\ (/\ ResolveStep
            /\ \A k \in DOMAIN cache : k[1] # lastResolve'.user.user_id) =>
              /\ ~ lastResolve'.hit
              /\ lastResolve'.calls # << >> ]_vars

\* C23 witness: invalidate_cache("u1") removed the two entries of the user.
C23_Witness ==
    /\ lastResolve.op = "invalidate"
    /\ lastResolve.arg = "u1"
    /\ lastResolve.removed = 2
    /\ \A k \in DOMAIN cache : k[1] # "u1"

\* C24: a resolve_user_quota in which a quota-store call raises returns no
\* ResolvedQuota and leaves the resolved-quota cache as it was.
C24_StoreErrorsNotCached ==
    [][ (/\ lastResolve'.op = "resolve"
         /\ lastResolve'.raised
         /\ now' = now
         /\ quota_store' = quota_store) =>
           /\ lastResolve'.resolved = None
           /\ cache' = cache ]_vars

\* C24 witness: the second store call of a resolution raised; the expired
\* entry the call had found is still the entry of the key.
C24_Witness ==
    /\ lastResolve.op = "resolve"
    /\ lastResolve.raised
    /\ Len(lastResolve.calls) >= 2
    /\ lastResolve.found # None
    /\ now - lastResolve.found[1].cached_at >= cache_ttl
    /\ cache[get_cache_key(lastResolve.user)] = lastResolve.found[1]

\* the call of the matcher just made was on this domain and pattern
Matched(user_domain, pattern) ==
    /\ lastMatch # None
    /\ lastMatch[1].user_domain = user_domain
    /\ lastMatch[1].pattern = pattern

\* the call of the matcher just made was on this pattern
MatchedPattern(pattern) == lastMatch # None /\ lastMatch[1].pattern = pattern

\* the domain is the base, or something followed by "." and the base
IsSubdomainOrSelf(user_domain, base_domain) ==
    \/ user_domain = base_domain
    \/ \E n \in 1..Len(user_domain) :
          /\ user_domain[n] = "."
          /\ From(user_domain, n) = base_domain

\* C25: for a pattern *.base the matcher returns true exactly when the
\* domain is the base or ends with "." followed by the base.
C25_WildcardPattern ==
    (lastMatch # None /\ StartsWith(lastMatch[1].pattern, << "*", "." >>))
    => /\ ~ lastMatch[1].outcome.raised
       /\ lastMatch[1].outcome.value
            <=> IsSubdomainOrSelf(lastMatch[1].user_domain,
                                  From(lastMatch[1].pattern, 2))

\* C25 witnesses: other.edu against *.university.edu is false,
\* university.edu against it is true.
C25_Witness ==
    /\ Matched(University, Wildcard(University))
    /\ lastMatch[1].outcome.value

C25_WitnessOther ==
    /\ Matched(OtherEdu, Wildcard(University))
    /\ ~ lastMatch[1].outcome.value

\* an element matches under the exact, the wildcard or the regex rule
ElementMatches(user_domain, element) ==
    \/ element # << >> /\ element = user_domain
    \/ /\ StartsWith(element, << "*", "." >>)
       /\ IsSubdomainOrSelf(user_domain, From(element, 2))
    \/ /\ StartsWith(element, << "regex:" >>)
       /\ ~ re_match(From(element, 1), user_domain).error
       /\ re_match(From(element, 1), user_domain).match

\* C26: for a pattern that is a list of two or more elements the matcher
\* returns true exactly when one of the elements matches under the exact,
\* the wildcard or the regex rule, whatever the first element is.
C26_CommaSeparated ==
    \A sep \in Separators, elements \in ElementLists :
       (Len(elements) >= 2 /\ MatchedPattern(Join(elements, sep)))
       => lastMatch[1].outcome.value
            <=> \E i \in 1..Len(elements) :
                   ElementMatches(lastMatch[1].user_domain, elements[i])

\* the pattern is a regex: whose expression does not compile
InvalidRegex(pattern) ==
    /\ StartsWith(pattern, << "regex:" >>)
    /\ re_match(From(pattern, 1), University).error

FailsClosed(pattern) == pattern = NoPattern \/ InvalidRegex(pattern)

\* C27: the matcher never raises; on an empty or missing pattern and on a
\* regex: pattern whose expression is invalid it returns false, and no
\* resolution is matched by an assignment of such a pattern.
C27_FailsClosed ==
    /\ lastMatch # None =>
          /\ ~ lastMatch[1].outcome.raised
          /\ FailsClosed(lastMatch[1].pattern) => ~ lastMatch[1].outcome.value
    /\ (lastResolve.op = "resolve" /\ lastResolve.resolved # None) =>
          ~ FailsClosed(lastResolve.resolved[1].assignment[1].email_domain)

\* C27 witnesses: a call on an invalid regex returned false, and a
\* resolution of a user whose only rule has such a pattern granted nothing.
C27_Witness ==
    /\ Matched(CsUniversity, Regex(<< "invalid" >>))
    /\ lastMatch[1].outcome = MatchOutcome(FALSE, FALSE)
    /\ lastResolve.op = "resolve"
    /\ lastResolve.resolved = None
    /\ "get_tier" \notin Range(lastResolve.calls)
    /\ FailsClosed(quota_store.domain_assignments[1].email_domain)
    /\ quota_store.domain_assignments[1].email_domain # NoPattern

\* what one resolve_user_quota of the user returns on a fresh resolver
Sequential(user) ==
    resolve_from_db(quota_store, user, None, 0, cache_ttl).resolved

\* C28: however two resolve_user_quota calls of one user and role set
\* interleave at their repository calls, each returns what one call alone
\* returns on the unchanged store, and once both have returned the cache
\* holds that result under the key of the user.
C28_BenignRace ==
    /\ \A id \in TaskIds :
          tasks[id].pc = "done" =>
             tasks[id].result = Sequential(tasks[id].user)
    /\ (\A id \in TaskIds : tasks[id].pc = "done") =>
          \A id \in TaskIds :
             LET cache_key == get_cache_key(tasks[id].user)
             IN /\ cache_key \in DOMAIN cache
                /\ cache[cache_key].resolved = Sequential(tasks[id].user)

\* C28 witness: both calls found no entry, both made every repository call
\* of the resolution, the domain list among them, and both returned a
\* quota.
C28_Witness ==
    \A id \in TaskIds :
       /\ tasks[id].pc = "done"
       /\ ~ tasks[id].hit
       /\ tasks[id].made >= 4
       /\ tasks[id].dview = Some([cached |-> FALSE, assignments |-> << >>])
       /\ tasks[id].result # None

\* C29: of the get_and_delete_state calls on a token at most one returns
\* (True, data); a call that returns it started no later than the expiry
\* of the token, and every other call, the loser of two concurrent calls on
\* a DynamoDBStateStore among them, returns (False, None).
C29_OneTimeTokens ==
    /\ \A state \in StateTokens : granted[state] <= 1
    /\ lastReturn # None =>
          IF lastReturn[1].ok
          THEN /\ lastReturn[1].read
               /\ ~ lastReturn[1].expired
               /\ granted[lastReturn[1].state] = 1
          ELSE lastReturn[1].data = NoData

\* C29 witness: of two concurrent calls on a token of a DynamoDBStateStore
\* that both read the item before its expiry, the second to delete got
\* (False, None).
C29_Witness ==
    /\ backend = "dynamodb"
    /\ lastReturn # None
    /\ ~ lastReturn[1].ok
    /\ lastReturn[1].read
    /\ ~ lastReturn[1].expired
    /\ granted[lastReturn[1].state] = 1
    /\ items[lastReturn[1].state] = None

\* C29 witness for the InMemoryStateStore: a second call on a token that
\* was returned once got (False, None).
C29_WitnessInMemory ==
    /\ backend = "memory"
    /\ lastReturn # None
    /\ ~ lastReturn[1].ok
    /\ granted[lastReturn[1].state] = 1
    /\ time = 0

\* the step is a get_agent that evicted an entry
Evicts == lastGet' # None /\ lastGet'[1].evicted # NoKey

\* C30: when get_agent evicts, the entry evicted is the one used least
\* recently, a hit counting as a use: an entry a hit returned after every
\* other entry was last used is not the one evicted.
C30_AgentCacheLru ==
    [][ Evicts => lastGet'[1].evicted = Head(recency) ]_vars

\* the call has read from the store, was suspended at a lookup when
\* invalidate_cache ran for its user, and now completes
CompletesAfterInvalidation(id) ==
    /\ tasks[id].pc = "awaiting"
    /\ tasks[id].invalidated
    /\ tasks'[id].pc = "done"

\* C31: a resolve_user_quota that was suspended at a quota-store lookup when
\* invalidate_cache ran for its user (or for all users), after it had read
\* from the store, does not put a cache entry when it completes: the cache
\* is as the invalidation and the calls after it left it.
C31_InvalidationNotUndone ==
    [][\A id \in TaskIds : CompletesAfterInvalidation(id) => cache' = cache]_vars

\* the rule chain evaluated against what the store holds, every list read
\* from the repository
ChainOn(qs, user) == resolve_from_db(qs, user, None, now, cache_ttl).resolved

\* the next step is a resolve_user_quota(user) that returns
ResolveOf(user) == ResolveStep /\ lastResolve'.user = user

\* invalidate_cache(user_id) for the user was the last call made, after the
\* admin service wrote to the store
InvalidatedAfterChange(user) ==
    /\ changed_at >= 0
    /\ lastResolve.op = "invalidate"
    /\ lastResolve.arg = user.user_id

\* C32: after a write to the quota-store followed by invalidate_cache(user_id),
\* the next resolve_user_quota of that user returns the result of the rule
\* chain on what the store holds at that time, email_domain assignments
\* included.
C32_InvalidationMakesCurrent ==
    [][\A user \in StaleUsers : InvalidatedAfterChange(user) /\ ResolveOf(user) => lastResolve'.resolved = ChainOn(quota_store, user)]_vars

\* what the store held at some time in the cache_ttl before now: what it
\* holds now, and what it held before the last write if that write is no
\* older than cache_ttl
HeldWithinTtl ==
    {quota_store} \cup
      (IF changed_at >= 0 /\ changed_at >= now - cache_ttl
       THEN StaleStores \ {quota_store} ELSE {})

\* C33: the value a resolve_user_quota returns is the result of the rule
\* chain on store contents no older than cache_ttl when the call returns,
\* whether it comes from the per-user cache, from the domain-assignment
\* cache or from the store.
C33_BoundedStaleness ==
    [][\A user \in StaleUsers : ResolveOf(user) => \E qs \in HeldWithinTtl : lastResolve'.resolved = ChainOn(qs, user)]_vars

\* the content blocks of the turn-store records followed by those of the
\* pending buffer
AllBlocks(records, pending) == BlocksOf(records) \o BlocksOf(pending)

\* the content blocks of the message the step offers
OfferedBlocks == ContentOf(fed'[Len(fed')], Len(fed'))

\* C34: the content blocks of the turn-store records followed by the pending
\* buffer are those of the messages accepted while not cancelled, each once:
\* an append_message or add_message made while not cancelled adds the blocks
\* of its message at the end, whether or not a flush it triggers raises, and
\* a flush, failing or not, neither removes nor repeats a block.
C34_NoLossNoDuplication ==
    [][LET before == AllBlocks(store, pending_messages) after == AllBlocks(store', pending_messages') IN IF Len(fed') = Len(fed) THEN after = before ELSE IF cancelled THEN after \in {before, before \o OfferedBlocks} ELSE after = before \o OfferedBlocks]_vars

\* the run of stream_response was ended by the consumer or by cancellation
Disconnected == pc \in {"closed", "cancelled"}

\* C35: when the consumer has closed the stream_response generator before
\* the agent stream completed, or the task running it was cancelled, on a
\* session manager that exposes flush, flush() has been called and the
\* buffer holds no message.
C35_DisconnectFlushes ==
    (Disconnected /\ exposes_flush) =>
        /\ FlushCalls(trace) # << >>
        /\ pending_messages = << >>

\* C36: what a tool reads from os.environ while the stream of session S and
\* user U that called it is being processed is SESSION_ID = S and
\* USER_ID = U, whatever other streams of the process have done at their
\* suspension points.
C36_SessionIsolation ==
    lastRead # << >> =>
        /\ lastRead.SESSION_ID = lastRead.session_id
        /\ lastRead.USER_ID = lastRead.user_id

\* the messages the step added to the files of the base manager
NewlyWritten == SubSeq(base_messages', Len(base_messages) + 1, Len(base_messages'))

\* the step is a flush of a non-empty buffer, called by the owner or by
\* append_message at batch_size
LocalFlushStep == lastLocal'.flushed # << >> /\ lastLocal' # lastLocal

\* the step stores every flushed message whose write did not fail, after the
\* messages stored before, in arrival order, and no other
WritesEachInOrder ==
    LET flushed == lastLocal'.flushed
        kept == {k \in 1..Len(flushed) : k \notin lastLocal'.failed}
    IN /\ IsPrefix(base_messages, base_messages')
       /\ Len(NewlyWritten) = Cardinality(kept)
       /\ \A k \in kept : \E j \in 1..Len(NewlyWritten) : NewlyWritten[j] = flushed[k]
       /\ \A j \in 1..(Len(NewlyWritten) - 1) : NewlyWritten[j].content[1].msg < NewlyWritten[j + 1].content[1].msg

\* C37: LocalSessionBuffer.flush passes the pending messages to the base
\* manager one by one in arrival order, a write that fails does not stop
\* the writes after it, the buffer is empty afterwards, and no call raises;
\* so the buffer holds fewer than batch_size messages after every call, for
\* a batch_size of at least 1.
C37_LocalBufferPolicy ==
    /\ [](Len(lsb_pending_messages) < lsb_batch_size /\ ~ lastLocal.raised)
    /\ [][LocalFlushStep => WritesEachInOrder /\ lsb_pending_messages' = << >>]_vars

\* C37 witness: append_message reached batch_size and flushed three
\* messages; the write of the second failed, the first and the third are
\* stored, the buffer is empty and the call returned.
C37_Witness ==
    /\ lastLocal.op = "append_message"
    /\ Len(lastLocal.flushed) = 3
    /\ lastLocal.failed = {2}
    /\ ~ lastLocal.raised
    /\ lsb_pending_messages = << >>
    /\ base_messages = << lastLocal.flushed[1], lastLocal.flushed[3] >>

====
